---- MODULE Spec2Model ----
(***************************************************************************)
(* ReadMeLocal backend: the playback synchronisation model of              *)
(* src/backend/main.py (sentence durations, position -> sentence lookup,   *)
(* adaptive speed, and the import / close / update / sync handlers over    *)
(* the two singleton rows CurrentBook and PlaybackState).                  *)
(*                                                                         *)
(* Numbers.  Python floats are modelled as exact rationals <<n, d>> with   *)
(* d > 0 in lowest terms; float rounding is not modelled.  Timestamps are  *)
(* whole seconds.  A sentence is a tuple of one-character strings.         *)
(* Indices returned by the code are Python's (0-based).                    *)
(*                                                                         *)
(* The PlaybackState row is created at startup (lines 166-169) and never   *)
(* deleted, so the handlers' "ps is None" branches are not modelled.  A    *)
(* handler body runs without awaiting, one request at a time.              *)
(***************************************************************************)
EXTENDS Integers, Sequences, FiniteSets, TLC

VARIABLES
    settings,   \* config/settings.yaml as resolved at import of main.py (lines 74-86)
    book,       \* the current_book table: NoBook or the one row [content_json |-> sentences]
    ps,         \* the PlaybackState row id=1
    clock,      \* datetime.now(timezone.utc), in seconds
    last,       \* the response to the request served at the current instant
    inp,        \* arguments of a utility function called on its own
    out,        \* its result
    pc          \* "call" before the function ran, "done" after ("idle": no call)

vars == <<settings, book, ps, clock, last, inp, out, pc>>
sysvars == <<settings, book, ps, clock, last>>
fnvars == <<inp, out, pc>>

-----------------------------------------------------------------------------
(* Bounds of the model *)
MaxTicks == 2
MaxTable == 3
MaxDurSentences == 2

-----------------------------------------------------------------------------
(* Exact rational arithmetic standing for Python float arithmetic *)

Abs(n) == IF n < 0 THEN -n ELSE n

RECURSIVE Gcd(_, _)
Gcd(a, b) == IF b = 0 THEN a ELSE Gcd(b, a % b)

\* the rational n/d (d # 0) in lowest terms with a positive denominator
Rat(n, d) ==
    LET g == Gcd(Abs(n), Abs(d))
        s == IF d < 0 THEN -1 ELSE 1
    IN  <<(s * n) \div g, (s * d) \div g>>

RInt(n) == <<n, 1>>
RAdd(x, y) == Rat(x[1] * y[2] + y[1] * x[2], x[2] * y[2])
RMul(x, y) == Rat(x[1] * y[1], x[2] * y[2])
RDiv(x, y) == Rat(x[1] * y[2], x[2] * y[1])
RSub(x, y) == Rat(x[1] * y[2] - y[1] * x[2], x[2] * y[2])
RLt(x, y) == x[1] * y[2] < y[1] * x[2]
RLe(x, y) == x[1] * y[2] <= y[1] * x[2]
RMax(x, y) == IF RLt(x, y) THEN y ELSE x
RMin(x, y) == IF RLt(y, x) THEN y ELSE x
\* Python's x // y for floats x >= 0, y > 0, then int(): the floor of x / y
RFloorDiv(x, y) == (x[1] * y[2]) \div (x[2] * y[1])

Half == Rat(1, 2)
Zero == RInt(0)

-----------------------------------------------------------------------------
(* Pure functions of main.py *)

\* str.isspace() on the characters the model uses
IsSpace(c) == c \in {" ", "\t", "\n"}

\* len(sentence.split()): the number of maximal runs of non-whitespace
RECURSIVE SplitCount(_, _, _)
SplitCount(s, i, inWord) ==
    IF i > Len(s) THEN 0
    ELSE IF IsSpace(s[i]) THEN SplitCount(s, i + 1, FALSE)
    ELSE (IF inWord THEN 0 ELSE 1) + SplitCount(s, i + 1, TRUE)

WordCount(sentence) == SplitCount(sentence, 1, FALSE)

\* the duration without the 0.5 s minimum
SentenceDuration_NoFloor(sentence, speed) ==
    LET word_count == WordCount(sentence)
    IN  IF word_count > 0
        THEN RDiv(RMul(RDiv(RInt(word_count), RInt(150)), RInt(60)), speed)
        ELSE RInt(1)

\* one iteration of the loop of _calculate_sentence_durations (lines 356-359)
SentenceDuration(sentence, speed) ==
    LET word_count == WordCount(sentence)
        duration == IF word_count > 0
                    THEN RDiv(RMul(RDiv(RInt(word_count), RInt(150)), RInt(60)), speed)
                    ELSE RInt(1)
    IN  RMax(duration, Half)

\* (word_count / 150.0) * 60.0 / 0.0 raises ZeroDivisionError: the call raises
\* as soon as a sentence with a word is met, and returns nothing
DurationsRaise(sentences, speed) ==
    speed[1] = 0 /\ \E i \in 1..Len(sentences) : WordCount(sentences[i]) > 0

\* the list returned when the call does not raise
_calculate_sentence_durations(sentences, speed) ==
    [i \in 1..Len(sentences) |-> SentenceDuration(sentences[i], speed)]

\* the loop with <= for < (a position on a sentence boundary stays behind)
RECURSIVE LocateLoop_Le(_, _, _, _)
LocateLoop_Le(durations, position_seconds, i, cum) ==
    IF i > Len(durations) THEN -2
    ELSE IF RLe(position_seconds, RAdd(cum, durations[i])) THEN i - 1
    ELSE LocateLoop_Le(durations, position_seconds, i + 1, RAdd(cum, durations[i]))

\* the for loop of _get_sentence_at_position from (1-based) entry i on with
\* cumulative_time = cum; -2 stands for falling out of the loop
RECURSIVE LocateLoop(_, _, _, _)
LocateLoop(durations, position_seconds, i, cum) ==
    IF i > Len(durations) THEN -2
    ELSE IF RLt(position_seconds, RAdd(cum, durations[i])) THEN i - 1
    ELSE LocateLoop(durations, position_seconds, i + 1, RAdd(cum, durations[i]))

\* the lookup answering 0 instead of the last index past the end
GetSentence_FirstPastEnd(sentences, durations, position_seconds) ==
    LET found == LocateLoop(durations, position_seconds, 1, Zero)
    IN  IF found # -2 THEN found ELSE 0

_get_sentence_at_position(sentences, durations, position_seconds) ==
    LET found == LocateLoop(durations, position_seconds, 1, Zero)
    IN  IF found # -2 THEN found ELSE Len(sentences) - 1

\* the ramp counting a started interval as a full one
AdaptiveSpeed_RoundUp(cfg, elapsed_seconds) ==
    LET elapsed == RMax(Zero, RDiv(RInt(elapsed_seconds), RInt(60)))
        interval == IF cfg.increment_interval_min > 1 THEN cfg.increment_interval_min ELSE 1
        increments == RFloorDiv(elapsed, RInt(interval)) + 1
        speed == RAdd(cfg.start_speed, RMul(RInt(increments), cfg.speed_increment))
        capped == IF RLt(cfg.max_speed, speed) THEN cfg.max_speed ELSE speed
    IN  IF RLt(capped, Half) THEN Half ELSE capped

\* the ramp without the 0.5 floor
AdaptiveSpeed_NoFloor(cfg, elapsed_seconds) ==
    LET elapsed == RMax(Zero, RDiv(RInt(elapsed_seconds), RInt(60)))
        interval == IF cfg.increment_interval_min > 1 THEN cfg.increment_interval_min ELSE 1
        increments == RFloorDiv(elapsed, RInt(interval))
        speed == RAdd(cfg.start_speed, RMul(RInt(increments), cfg.speed_increment))
    IN  IF RLt(cfg.max_speed, speed) THEN cfg.max_speed ELSE speed

\* _compute_adaptive_speed with elapsed_seconds = (now - session_start).total_seconds();
\* the except branch (a failing datetime subtraction) is not modelled
_compute_adaptive_speed(cfg, elapsed_seconds) ==
    LET elapsed == RMax(Zero, RDiv(RInt(elapsed_seconds), RInt(60)))
        interval == IF cfg.increment_interval_min > 1 THEN cfg.increment_interval_min ELSE 1
        increments == RFloorDiv(elapsed, RInt(interval))
        speed == RAdd(cfg.start_speed, RMul(RInt(increments), cfg.speed_increment))
        capped == IF RLt(cfg.max_speed, speed) THEN cfg.max_speed ELSE speed
    IN  IF RLt(capped, Half) THEN Half ELSE capped

-----------------------------------------------------------------------------
(* Configuration: the playback and session sections of settings.yaml *)

START_SPEED == settings.start_speed
SPEED_INCREMENT == settings.speed_increment
INCREMENT_INTERVAL_MIN == settings.increment_interval_min
MAX_SPEED == settings.max_speed
SINGLE_BOOK_MODE == settings.single_book_mode

\* the defaults of lines 76-79 and 85
DefaultSettings ==
    [start_speed |-> Rat(3, 2), speed_increment |-> Rat(1, 10),
     increment_interval_min |-> 15, max_speed |-> Rat(5, 2),
     single_book_mode |-> TRUE]

\* settings files of the running system: the defaults, the defaults with
\* several books allowed, and a fast ramp (one step a minute)
SystemSettings ==
    { DefaultSettings,
      [DefaultSettings EXCEPT !.single_book_mode = FALSE],
      [DefaultSettings EXCEPT !.start_speed = RInt(1), !.speed_increment = RInt(1),
                              !.increment_interval_min = 1] }

-----------------------------------------------------------------------------
(* The database: two singleton rows *)

NoBook == <<>>          \* db.get(CurrentBook, 1) is None
Null == <<>>            \* sentence_durations_json IS NULL (read as "[]", lines 716, 753)

BookLoaded == book # NoBook
Sentences == book[1].content_json

\* sentences as the parsers and _split_sentences deliver them: trimmed, non-empty
Short == <<"a">>
Long == <<"a", " ", "b", " ", "c">>

\* what parsing, filtering and splitting an upload can give
ParsedSentences ==
    { <<>>, <<Short>>, <<Long, Short>>, <<Short, Long>>, <<Short, Long, Short>> }

\* request bodies
RequestPositions == { RInt(-1), Rat(9, 10), RInt(5) }
RequestSpeeds == { Rat(1, 5), RInt(2), RInt(4) }
NotGiven == <<>>        \* an Optional field of PlaybackUpdateRequest left None

NoRequest == [op |-> "none", status |-> 0]
Response(op, status, req) == [op |-> op, status |-> status, req |-> req]

\* no pure-function call is under check
FnIdle == inp = <<>> /\ out = <<>> /\ pc = "idle"

Init ==
    /\ settings \in SystemSettings
    /\ book = NoBook
    /\ clock = 0
    /\ ps = [position_seconds |-> Zero, speed |-> START_SPEED,
             session_start |-> 0, last_updated |-> 0,
             current_sentence_index |-> 0, sentence_durations_json |-> Null]
    /\ last = NoRequest
    /\ FnIdle

\* time passes between requests
Tick ==
    /\ clock + 60 <= MaxTicks * 60
    /\ clock' = clock + 60
    /\ last' = NoRequest
    /\ UNCHANGED <<settings, book, ps, fnvars>>

\* UpsertBook without the Phase 7 recomputation of the durations
UpsertBook_StaleDurations(sentences) ==
    /\ book' = << [content_json |-> sentences] >>
    /\ ps' = [ps EXCEPT !.position_seconds = Zero, !.speed = START_SPEED,
                        !.session_start = clock, !.last_updated = clock,
                        !.current_sentence_index = 0]

\* UpsertBook without the reset of the cursor's position and sentence index
UpsertBook_KeepCursor(sentences) ==
    /\ book' = << [content_json |-> sentences] >>
    /\ ps' = [ps EXCEPT !.speed = START_SPEED,
                        !.session_start = clock, !.last_updated = clock,
                        !.sentence_durations_json =
                            _calculate_sentence_durations(sentences, START_SPEED)]

\* _upsert_current_book: the rows as committed at line 403
UpsertBook(sentences) ==
    /\ book' = << [content_json |-> sentences] >>
    /\ ps' = [position_seconds |-> Zero, speed |-> START_SPEED,
              session_start |-> clock, last_updated |-> clock,
              sentence_durations_json |-> _calculate_sentence_durations(sentences, START_SPEED),
              current_sentence_index |-> 0]

\* the import without the single-book check
import_book_NoGuard(sentences) ==
    /\ IF DurationsRaise(sentences, START_SPEED)
       THEN /\ last' = Response("import", 500, sentences)
            /\ UNCHANGED <<book, ps>>
       ELSE /\ UpsertBook(sentences)
            /\ last' = Response("import", 200, sentences)
    /\ UNCHANGED <<settings, clock, fnvars>>

\* POST /api/book/import; sentences is what parsing, filtering and splitting
\* the upload gave (lines 492-507)
import_book(sentences) ==
    /\ IF SINGLE_BOOK_MODE /\ BookLoaded
       THEN /\ last' = Response("import", 409, sentences)
            /\ UNCHANGED <<book, ps>>
       ELSE IF DurationsRaise(sentences, START_SPEED)
       THEN \* the exception leaves the handler before db.commit()
            /\ last' = Response("import", 500, sentences)
            /\ UNCHANGED <<book, ps>>
       ELSE /\ UpsertBook(sentences)
            /\ last' = Response("import", 200, sentences)
    /\ UNCHANGED <<settings, clock, fnvars>>

\* POST /api/book/close
close_current_book ==
    /\ book' = NoBook
    /\ ps' = [ps EXCEPT !.position_seconds = Zero, !.speed = START_SPEED,
                        !.session_start = clock, !.last_updated = clock]
    /\ last' = Response("close", 200, <<>>)
    /\ UNCHANGED <<settings, clock, fnvars>>

\* GET /api/playback/speed
get_playback_speed ==
    /\ ps' = [ps EXCEPT !.speed = _compute_adaptive_speed(settings, clock - ps.session_start),
                        !.last_updated = clock]
    /\ last' = Response("speed", 200, <<>>)
    /\ UNCHANGED <<settings, book, clock, fnvars>>

ClampSpeed(speed) == RMax(Half, RMin(RInt(3), speed))

\* the update that stamps last_updated even when no field was supplied
update_playback_AlwaysStamp(position_seconds, speed) ==
    LET ps1 == IF position_seconds # NotGiven
               THEN [ps EXCEPT !.position_seconds = RMax(Zero, position_seconds)]
               ELSE ps
        ps2 == IF speed # NotGiven THEN [ps1 EXCEPT !.speed = ClampSpeed(speed)] ELSE ps1
    IN  /\ ps' = [ps2 EXCEPT !.last_updated = clock]
        /\ last' = Response("update", 200, <<position_seconds, speed>>)
        /\ UNCHANGED <<settings, book, clock, fnvars>>

\* POST /api/playback/update
update_playback(position_seconds, speed) ==
    LET ps1 == IF position_seconds # NotGiven
               THEN [ps EXCEPT !.position_seconds = RMax(Zero, position_seconds)]
               ELSE ps
        ps2 == IF speed # NotGiven THEN [ps1 EXCEPT !.speed = ClampSpeed(speed)] ELSE ps1
        changed == position_seconds # NotGiven \/ speed # NotGiven
    IN  /\ ps' = IF changed THEN [ps2 EXCEPT !.last_updated = clock] ELSE ps
        /\ last' = Response("update", 200, <<position_seconds, speed>>)
        /\ UNCHANGED <<settings, book, clock, fnvars>>

\* the guards shared by the two Phase 7 handlers (lines 710-721 and 747-758)
ContentStatus ==
    IF ~BookLoaded THEN 404
    ELSE IF Sentences = <<>> \/ ps.sentence_durations_json = <<>> THEN 404
    ELSE 200

\* GET /api/playback/current-sentence
get_current_sentence ==
    /\ IF ContentStatus # 200
       THEN UNCHANGED ps
       ELSE ps' = [ps EXCEPT
                !.current_sentence_index =
                    _get_sentence_at_position(Sentences, ps.sentence_durations_json,
                                              ps.position_seconds),
                !.last_updated = clock]
    /\ last' = Response("current-sentence", ContentStatus, <<>>)
    /\ UNCHANGED <<settings, book, clock, fnvars>>

\* the seek that stores the position and leaves the sentence index as it was
sync_sentence_position_KeepIndex(req_position) ==
    LET position_seconds == RMax(Zero, req_position)
    IN  /\ IF ContentStatus # 200
           THEN UNCHANGED ps
           ELSE ps' = [ps EXCEPT !.position_seconds = position_seconds,
                                 !.last_updated = clock]
        /\ last' = Response("sync", ContentStatus, req_position)
        /\ UNCHANGED <<settings, book, clock, fnvars>>

\* POST /api/playback/sync-sentence
sync_sentence_position(req_position) ==
    LET position_seconds == RMax(Zero, req_position)
    IN  /\ IF ContentStatus # 200
           THEN UNCHANGED ps
           ELSE ps' = [ps EXCEPT
                    !.position_seconds = position_seconds,
                    !.current_sentence_index =
                        _get_sentence_at_position(Sentences, ps.sentence_durations_json,
                                                  position_seconds),
                    !.last_updated = clock]
        /\ last' = Response("sync", ContentStatus, req_position)
        /\ UNCHANGED <<settings, book, clock, fnvars>>

Next ==
    \/ Tick
    \/ \E sentences \in ParsedSentences : import_book(sentences)
    \/ close_current_book
    \/ get_playback_speed
    \/ \E p \in RequestPositions \cup {NotGiven}, s \in RequestSpeeds \cup {NotGiven} :
          update_playback(p, s)
    \/ get_current_sentence
    \/ \E p \in RequestPositions : sync_sentence_position(p)

Spec == Init /\ [][Next]_vars

-----------------------------------------------------------------------------
(* Claims about the handlers, checked under Spec *)

\* C2: whenever a book is loaded, the stored duration table has exactly as
\* many entries as the stored sentence list of that book.
C2_DurationsMatchSentences ==
    BookLoaded => Len(ps.sentence_durations_json) = Len(Sentences)

\* a three-sentence book is loaded and a seek on it has just been served
C2_Witness ==
    /\ BookLoaded /\ Len(Sentences) = 3
    /\ last.op = "sync" /\ last.status = 200
    /\ ps.current_sentence_index = 2

\* C3: right after a successful import the cursor is at position 0 and
\* sentence 0, runs at START_SPEED, its session starts at the import time, and
\* the stored sentences and durations are those of the imported book.
C3_ImportResets ==
    (last.op = "import" /\ last.status = 200) =>
        /\ ps.position_seconds = Zero
        /\ ps.speed = START_SPEED
        /\ ps.session_start = clock
        /\ ps.current_sentence_index = 0
        /\ BookLoaded /\ Sentences = last.req
        /\ Len(ps.sentence_durations_json) = Len(last.req)
        /\ \A i \in 1..Len(last.req) :
              ps.sentence_durations_json[i] = SentenceDuration(last.req[i], START_SPEED)

\* a non-empty book imported later than startup, where several books are
\* allowed (so the import may have replaced a book that was being played)
C3_Witness ==
    /\ last.op = "import" /\ last.status = 200
    /\ Len(last.req) = 2 /\ clock > 0 /\ ~SINGLE_BOOK_MODE

\* C4 as stated: right after a close no book is loaded, the cursor is reset
\* and no duration table of the closed book remains stored.
C4_CloseDiscards ==
    last.op = "close" =>
        /\ ~BookLoaded
        /\ ps.position_seconds = Zero
        /\ ps.speed = START_SPEED
        /\ ps.session_start = clock
        /\ ps.sentence_durations_json = Null

\* C5 as stated: position_seconds >= 0 and 0.5 <= speed <= MAX_SPEED always.
C5_CursorInRange ==
    /\ RLe(Zero, ps.position_seconds)
    /\ RLe(Half, ps.speed)
    /\ RLe(ps.speed, MAX_SPEED)

-----------------------------------------------------------------------------
(* The utilities called on their own.  The database plays no part. *)

SysIdle ==
    /\ settings = DefaultSettings
    /\ book = NoBook
    /\ clock = 0
    /\ ps = [position_seconds |-> Zero, speed |-> START_SPEED,
             session_start |-> 0, last_updated |-> 0,
             current_sentence_index |-> 0, sentence_durations_json |-> Null]
    /\ last = NoRequest

RECURSIVE SeqsUpTo(_, _)
\* the sequences over S of length at most n
SeqsUpTo(S, n) ==
    IF n = 0 THEN { <<>> }
    ELSE LET shorter == SeqsUpTo(S, n - 1)
         IN  shorter \cup { Append(q, x) : q \in { r \in shorter : Len(r) = n - 1 }, x \in S }

RECURSIVE RSum(_, _)
\* durations[1] + ... + durations[n]
RSum(durations, n) == IF n = 0 THEN Zero ELSE RAdd(RSum(durations, n - 1), durations[n])

(* _get_sentence_at_position.  Its callers pass the sentence list of the    *)
(* book together with the duration table computed from it, so the two      *)
(* lists have the same length; every entry of a table is at least 0.5.     *)
DurationValues == { Half, Rat(4, 5), RInt(1) }
LocatePositions ==
    { RInt(-1), Zero, Rat(1, 2), Rat(4, 5), RInt(1), Rat(13, 10), Rat(3, 2), RInt(2),
      RInt(3), RInt(5) }

LocateInit ==
    /\ SysIdle
    /\ pc = "call"
    /\ out = <<>>
    /\ \E durations \in SeqsUpTo(DurationValues, MaxTable), p \in LocatePositions :
          inp = [sentences |-> [i \in 1..Len(durations) |-> Short],
                 durations |-> durations,
                 position_seconds |-> p]

\* the first lookup
LocateCall ==
    /\ pc = "call"
    /\ out' = _get_sentence_at_position(inp.sentences, inp.durations, inp.position_seconds)
    /\ pc' = "done"
    /\ UNCHANGED <<inp, sysvars>>

\* a further lookup in the same table at another position
LocateAgain(p) ==
    /\ pc = "done"
    /\ inp' = [inp EXCEPT !.position_seconds = p]
    /\ out' = _get_sentence_at_position(inp.sentences, inp.durations, p)
    /\ UNCHANGED <<pc, sysvars>>

LocateNext ==
    \/ LocateCall
    \/ \E p \in LocatePositions : LocateAgain(p)

SpecLocate == LocateInit /\ [][LocateNext]_vars

\* position_seconds < cumulative_time_before(i) + durations[i], i 0-based
Before(durations, position_seconds, i) == RLt(position_seconds, RSum(durations, i + 1))

\* the contract of locate_sentence for one call
LocateContract ==
    LET n == Len(inp.durations)
        hits == { i \in 0..(n - 1) : Before(inp.durations, inp.position_seconds, i) }
    IN  /\ out >= 0 /\ out < n
        /\ hits # {} => out \in hits /\ \A i \in hits : out <= i
        /\ hits = {} => out = n - 1

\* C1 as stated: for every duration table and position the result is the
\* first index whose cumulative end lies beyond the position, the last index
\* when there is none, and never negative nor out of bounds.
C1_LocateEveryTable == pc = "done" => LocateContract

\* C1 amended: the same for every non-empty duration table.
C1_LocateNonEmpty == (pc = "done" /\ Len(inp.durations) > 0) => LocateContract

\* a position on the boundary between the first two sentences goes to the second
C1_Witness ==
    /\ pc = "done" /\ Len(inp.durations) = 3
    /\ inp.position_seconds = inp.durations[1]
    /\ out = 1

\* C10: for a fixed duration table the result does not decrease when the
\* position grows, and it is len(durations) - 1 for every position at or
\* beyond the total duration.
C10_LocateMonotone ==
    /\ [](pc = "done" /\ RLe(RSum(inp.durations, Len(inp.durations)), inp.position_seconds)
            => out = Len(inp.durations) - 1)
    /\ [][(pc = "done" /\ pc' = "done" /\ RLe(inp.position_seconds, inp'.position_seconds))
            => out <= out']_vars

\* a lookup exactly at the total duration of a three-entry table
C10_Witness ==
    /\ pc = "done" /\ Len(inp.durations) = 3
    /\ inp.position_seconds = RSum(inp.durations, 3)
    /\ out = 2

-----------------------------------------------------------------------------
(* _compute_adaptive_speed.  The four settings are read with float() / int() *)
(* and not validated, so a settings file may hold any numbers.             *)
SpeedSettings ==
    { DefaultSettings,
      [DefaultSettings EXCEPT !.start_speed = RInt(1), !.speed_increment = Rat(1, 2),
                              !.increment_interval_min = 0],
      [DefaultSettings EXCEPT !.increment_interval_min = -5],
      [DefaultSettings EXCEPT !.start_speed = Rat(1, 5)],
      [DefaultSettings EXCEPT !.max_speed = Rat(2, 5)],
      [DefaultSettings EXCEPT !.speed_increment = Rat(-1, 10)],
      [DefaultSettings EXCEPT !.start_speed = Rat(-1, 1), !.speed_increment = RInt(1),
                              !.increment_interval_min = 1] }

\* now - session_start, in seconds (negative when the clock was set back)
ElapsedSeconds ==
    { -60, 0, 30, 59, 60, 61, 119, 120, 180, 899, 900, 901, 1800, 2640, 12000 }

SpeedInit ==
    /\ SysIdle
    /\ pc = "call"
    /\ out = <<>>
    /\ \E cfg \in SpeedSettings, e \in ElapsedSeconds :
          inp = [cfg |-> cfg, elapsed_seconds |-> e]

\* the speed at session_start + elapsed_seconds
SpeedCall ==
    /\ pc = "call"
    /\ out' = _compute_adaptive_speed(inp.cfg, inp.elapsed_seconds)
    /\ pc' = "done"
    /\ UNCHANGED <<inp, sysvars>>

\* the speed of the same session asked again at another time
SpeedAgain(e) ==
    /\ pc = "done"
    /\ inp' = [inp EXCEPT !.elapsed_seconds = e]
    /\ out' = _compute_adaptive_speed(inp.cfg, e)
    /\ UNCHANGED <<pc, sysvars>>

SpeedNext ==
    \/ SpeedCall
    \/ \E e \in ElapsedSeconds : SpeedAgain(e)

SpecSpeed == SpeedInit /\ [][SpeedNext]_vars

\* start_speed + floor(max(0, elapsed_minutes) / max(1, interval_minutes)) * increment
RampValue(cfg, elapsed_seconds) ==
    LET interval == IF cfg.increment_interval_min < 1 THEN 1 ELSE cfg.increment_interval_min
        steps == IF elapsed_seconds <= 0 THEN 0 ELSE elapsed_seconds \div (60 * interval)
    IN  RAdd(cfg.start_speed, RMul(RInt(steps), cfg.speed_increment))

\* the two worked examples of the spec
SpeedExamples ==
    (pc = "done" /\ inp.cfg = DefaultSettings) =>
        /\ inp.elapsed_seconds = 44 * 60 => out = Rat(17, 10)
        /\ inp.elapsed_seconds = 200 * 60 => out = Rat(5, 2)

-----------------------------------------------------------------------------
(* _calculate_sentence_durations, for any list of strings and any speed *)
SampleTexts == { <<>>, <<" ", " ">>, Short, <<"a", " ", " ", "b">>, Long }
SampleSpeeds == { RInt(-1), Zero, Rat(1, 2), RInt(1), Rat(3, 2), RInt(3), RInt(1000) }

Returned(value) == [raised |-> "none", value |-> value]
Raised(exception) == [raised |-> exception, value |-> <<>>]

DurationsInit ==
    /\ SysIdle
    /\ pc = "call"
    /\ out = <<>>
    /\ \E sentences \in SeqsUpTo(SampleTexts, MaxDurSentences), speed \in SampleSpeeds :
          inp = [sentences |-> sentences, speed |-> speed]

DurationsCall ==
    /\ pc = "call"
    /\ out' = IF DurationsRaise(inp.sentences, inp.speed)
              THEN Raised("ZeroDivisionError")
              ELSE Returned(_calculate_sentence_durations(inp.sentences, inp.speed))
    /\ pc' = "done"
    /\ UNCHANGED <<inp, sysvars>>

DurationsNext == DurationsCall

SpecDurations == DurationsInit /\ [][DurationsNext]_vars

\* the whitespace-delimited tokens of a sentence, counted by where they start
Tokens(sentence) ==
    Cardinality({ k \in 1..Len(sentence) :
                    sentence[k] # " " /\ (k = 1 \/ sentence[k - 1] = " ") })

\* C8: for speed > 0 the call returns one duration per sentence, in order:
\* 1.0 for a sentence without tokens, (tokens / 150) * 60 / speed otherwise,
\* raised to 0.5 when less; no value is below 0.5.
C8_Durations ==
    (pc = "done" /\ RLt(Zero, inp.speed)) =>
        /\ out.raised = "none"
        /\ Len(out.value) = Len(inp.sentences)
        /\ \A i \in 1..Len(inp.sentences) :
              LET n == Tokens(inp.sentences[i])
                  d == IF n = 0 THEN RInt(1)
                       ELSE Rat(n * 60 * inp.speed[2], 150 * inp.speed[1])
              IN  /\ out.value[i] = (IF RLt(d, Half) THEN Half ELSE d)
                  /\ RLe(Half, out.value[i])

\* a two-word sentence at speed 0.5 lasts 1.6 s, the empty one before it 1.0 s
C8_Witness ==
    /\ pc = "done" /\ inp.speed = Rat(1, 2)
    /\ inp.sentences = << <<>>, <<"a", " ", " ", "b">> >>
    /\ out = Returned(<< RInt(1), Rat(8, 5) >>)

\* C9 as stated, for a call that has something to estimate (some sentence
\* holds a word): with speed <= 0 the call is signalled and never returns a
\* duration table.
C9_NonPositiveSpeedSignalled ==
    (/\ pc = "done"
     /\ RLe(inp.speed, Zero)
     /\ \E i \in 1..Len(inp.sentences) : Tokens(inp.sentences[i]) > 0)
        => out.raised # "none"

-----------------------------------------------------------------------------
(* PDFBlockExtractor.classify_zone (parsers/pdf_blocks.py).  The two zone    *)
(* fractions come unvalidated from settings.yaml or the constructor.        *)

\* the zone test with <= for the header bound
classify_zone_HeaderLe(self, block) ==
    LET relative_y == RDiv(block.y0, block.page_height)
    IN  IF RLe(relative_y, self.header_zone_percent) THEN "header"
        ELSE IF RLt(RSub(RInt(1), self.footer_zone_percent), relative_y) THEN "footer"
        ELSE "body"

\* the zone test comparing with footer_zone_percent instead of 1 - footer_zone_percent
classify_zone_FooterFromTop(self, block) ==
    LET relative_y == RDiv(block.y0, block.page_height)
    IN  IF RLt(relative_y, self.header_zone_percent) THEN "header"
        ELSE IF RLt(self.footer_zone_percent, relative_y) THEN "footer"
        ELSE "body"

classify_zone(self, block) ==
    LET relative_y == RDiv(block.y0, block.page_height)
    IN  IF RLt(relative_y, self.header_zone_percent) THEN "header"
        ELSE IF RLt(RSub(RInt(1), self.footer_zone_percent), relative_y) THEN "footer"
        ELSE "body"

ZoneFractions == { Zero, Rat(1, 10), Rat(2, 5), Rat(3, 5), Rat(9, 10) }
PageHeights == { 10, 20 }

ZoneInit ==
    /\ SysIdle
    /\ pc = "call"
    /\ out = <<>>
    /\ \E h \in ZoneFractions, f \in ZoneFractions, H \in PageHeights, y \in -1..21 :
          /\ y <= H + 1
          /\ inp = [self |-> [header_zone_percent |-> h, footer_zone_percent |-> f],
                    block |-> [y0 |-> RInt(y), page_height |-> RInt(H)]]

ZoneCall ==
    /\ pc = "call"
    /\ out' = classify_zone(inp.self, inp.block)
    /\ pc' = "done"
    /\ UNCHANGED <<inp, sysvars>>

\* another block of the same page classified by the same extractor
ZoneAgain(y) ==
    /\ pc = "done"
    /\ RLe(RInt(y), RAdd(inp.block.page_height, RInt(1)))
    /\ inp' = [inp EXCEPT !.block.y0 = RInt(y)]
    /\ out' = classify_zone(inp.self, inp'.block)
    /\ UNCHANGED <<pc, sysvars>>

ZoneNext ==
    \/ ZoneCall
    \/ \E y \in -1..21 : ZoneAgain(y)

SpecZone == ZoneInit /\ [][ZoneNext]_vars

\* r = y0 / page_height, and the two thresholds
ZoneR == RDiv(inp.block.y0, inp.block.page_height)
ZoneH == inp.self.header_zone_percent
ZoneF == inp.self.footer_zone_percent

\* Header exactly when r < header_fraction, Footer exactly when r is not in
\* the header range and r > 1 - footer_fraction, Body otherwise
ZoneRule ==
    /\ out = "header" <=> RLt(ZoneR, ZoneH)
    /\ out = "footer" <=> (~RLt(ZoneR, ZoneH) /\ RLt(RSub(RInt(1), ZoneF), ZoneR))
    /\ out = "body" <=> (~RLt(ZoneR, ZoneH) /\ ~RLt(RSub(RInt(1), ZoneF), ZoneR))

ZoneOnBoundary == ZoneR = ZoneH \/ ZoneR = RSub(RInt(1), ZoneF)

\* C11 as stated: the zone rule, and both boundary values are Body.
C11_ZoneAsStated ==
    pc = "done" => (ZoneRule /\ (ZoneOnBoundary => out = "body"))

\* C11 amended: the zone rule; both boundary values are Body whenever the two
\* zones do not overlap (header_fraction + footer_fraction <= 1).
C11_Zone ==
    pc = "done" =>
        /\ ZoneRule
        /\ (ZoneOnBoundary /\ RLe(RAdd(ZoneH, ZoneF), RInt(1))) => out = "body"

\* a block exactly on the footer boundary (y0 = 18 of 20, footer 0.10)
C11_Witness ==
    /\ pc = "done" /\ ZoneF = Rat(1, 10) /\ ZoneH = Rat(1, 10)
    /\ ZoneR = Rat(9, 10) /\ out = "body"

ZoneRank(zone) == CASE zone = "header" -> 0 [] zone = "body" -> 1 [] zone = "footer" -> 2

\* the zones met on the positions 0 .. page_height of the page
ZonesOnPage ==
    { classify_zone(inp.self, [inp.block EXCEPT !.y0 = RInt(y)]) :
        y \in { z \in 0..20 : RLe(RInt(z), inp.block.page_height) } }

ZoneContiguous ==
    [][(pc = "done" /\ pc' = "done" /\ RLe(inp.block.y0, inp'.block.y0))
          => ZoneRank(out) <= ZoneRank(out')]_vars

\* C12 as stated: for all thresholds in [0,1) every position gets one zone,
\* the zones are contiguous ranges in the order header, body, footer, and
\* each of the three is non-empty on [0, page_height].
C12_PartitionAsStated ==
    /\ [](pc = "done" => out \in {"header", "body", "footer"})
    /\ ZoneContiguous
    /\ [](pc = "done" => ZonesOnPage = {"header", "body", "footer"})

\* C12 amended: every position gets one zone and the zones are contiguous
\* ranges in the order header, body, footer; all three are non-empty exactly
\* when header_fraction > 0, footer_fraction > 0 and their sum is <= 1.
C12_Partition ==
    /\ [](pc = "done" => out \in {"header", "body", "footer"})
    /\ ZoneContiguous
    /\ [](pc = "done" =>
            (ZonesOnPage = {"header", "body", "footer"}
               <=> (RLt(Zero, ZoneH) /\ RLt(Zero, ZoneF) /\ RLe(RAdd(ZoneH, ZoneF), RInt(1)))))

\* default fractions: a block in the footer range of a page with all three zones
C12_Witness ==
    /\ pc = "done" /\ ZoneH = Rat(1, 10) /\ ZoneF = Rat(1, 10)
    /\ ZonesOnPage = {"header", "body", "footer"}
    /\ out = "footer" /\ inp.block.y0 = inp.block.page_height

-----------------------------------------------------------------------------
(* Strings are tuples of one-character strings; the str methods the parsers  *)
(* and filters use.                                                          *)

LowerCase == <<"a", "b", "c", "d", "e", "f", "g", "h", "i", "j", "k", "l", "m", "n", "o", "p", "q", "r", "s", "t", "u", "v", "w", "x", "y", "z">>
UpperCase == <<"A", "B", "C", "D", "E", "F", "G", "H", "I", "J", "K", "L", "M", "N", "O", "P", "Q", "R", "S", "T", "U", "V", "W", "X", "Y", "Z">>

IsUpper(c) == c \in { UpperCase[i] : i \in 1..Len(UpperCase) }
\* str.lower() on one character
LowerOf == [c \in { UpperCase[i] : i \in 1..Len(UpperCase) } |->
               LowerCase[CHOOSE i \in 1..Len(UpperCase) : UpperCase[i] = c]]
Lower(c) == IF c \in DOMAIN LowerOf THEN LowerOf[c] ELSE c
LowerStr(s) == [i \in 1..Len(s) |-> Lower(s[i])]

\* the elements of s at the indices lo..hi that are in keep, in order
RECURSIVE KeepRange(_, _, _, _)
KeepRange(s, keep, lo, hi) ==
    IF lo > hi THEN <<>>
    ELSE IF lo = hi THEN (IF lo \in keep THEN <<s[lo]>> ELSE <<>>)
    ELSE KeepRange(s, keep, lo, (lo + hi) \div 2)
            \o KeepRange(s, keep, (lo + hi) \div 2 + 1, hi)

\* the elements of s at the indices in keep, in order
KeepAt(s, keep) == KeepRange(s, keep, 1, Len(s))

\* str.strip()
Strip(s) ==
    LET idx == { i \in 1..Len(s) : ~IsSpace(s[i]) }
    IN  IF idx = {} THEN <<>>
        ELSE SubSeq(s, CHOOSE i \in idx : \A j \in idx : i <= j,
                       CHOOSE i \in idx : \A j \in idx : j <= i)

\* re.sub(r"\s+", " ", s): every maximal whitespace run becomes one space
CollapseWhitespace(s) ==
    KeepAt([i \in 1..Len(s) |-> IF IsSpace(s[i]) THEN " " ELSE s[i]],
           { i \in 1..Len(s) : ~IsSpace(s[i]) \/ i = 1 \/ ~IsSpace(s[i - 1]) })

\* re.sub(r"\s+", " ", text.strip().lower())
Normalized(text) == CollapseWhitespace(LowerStr(Strip(text)))

\* "\n".join(parts)
RECURSIVE JoinLines(_)
JoinLines(parts) ==
    IF parts = <<>> THEN <<>>
    ELSE IF Len(parts) = 1 THEN parts[1]
    ELSE parts[1] \o <<"\n">> \o JoinLines(Tail(parts))

-----------------------------------------------------------------------------
(* Position-aware PDF extraction (parsers/pdf_parser.py) over the blocks of  *)
(* PDFBlockExtractor.extract_blocks.                                         *)

MaxBlocks == 4
DefaultRepeatThreshold == 3

\* a repeat counted only above the threshold
find_repeated_headers_Gt(blocks, threshold) ==
    LET normalized == [i \in 1..Len(blocks) |-> Normalized(blocks[i].text)]
        count(n) == Cardinality({ i \in 1..Len(blocks) : normalized[i] = n })
    IN  { normalized[i] : i \in { j \in 1..Len(blocks) :
              normalized[j] /= <<>> /\ count(normalized[j]) > threshold } }

\* PDFBlockExtractor.find_repeated_headers(blocks, threshold): the normalized
\* texts carried by at least threshold blocks, whatever their page or zone
find_repeated_headers(blocks, threshold) ==
    LET normalized == [i \in 1..Len(blocks) |-> Normalized(blocks[i].text)]
        count(n) == Cardinality({ i \in 1..Len(blocks) : normalized[i] = n })
    IN  { normalized[i] : i \in { j \in 1..Len(blocks) :
              normalized[j] /= <<>> /\ count(normalized[j]) >= threshold } }

\* the loop over blocks of _extract_with_position_filtering, from block i on
RECURSIVE FilterBlocks(_, _, _, _)
FilterBlocks(self, blocks, repeated_text, i) ==
    IF i > Len(blocks) THEN <<>>
    ELSE LET block == blocks[i]
             zone == classify_zone(self, block)
             rest == FilterBlocks(self, blocks, repeated_text, i + 1)
         IN  IF zone \in {"header", "footer"} THEN rest
             ELSE IF Normalized(block.text) \in repeated_text THEN rest
             ELSE <<block>> \o rest

\* the extraction that skips the header zone only
_extract_with_position_filtering_KeepFooter(self, blocks) ==
    LET repeated_text == find_repeated_headers(blocks, DefaultRepeatThreshold)
        filtered_blocks ==
            KeepAt(blocks, { i \in 1..Len(blocks) :
                /\ classify_zone(self, blocks[i]) /= "header"
                /\ Normalized(blocks[i].text) \notin repeated_text })
    IN  JoinLines([i \in 1..Len(filtered_blocks) |-> filtered_blocks[i].text])

_extract_with_position_filtering(self, blocks) ==
    LET repeated_text == find_repeated_headers(blocks, DefaultRepeatThreshold)
        filtered_blocks == FilterBlocks(self, blocks, repeated_text, 1)
    IN  JoinLines([i \in 1..Len(filtered_blocks) |-> filtered_blocks[i].text])

DefaultExtractor == [header_zone_percent |-> Rat(1, 10), footer_zone_percent |-> Rat(1, 10)]

TextBlock(text, y0) == [text |-> text, y0 |-> RInt(y0), page_height |-> RInt(10)]

\* "A b" and "a  b" in the body zone, " a b" in the header zone, "c" in the
\* footer zone, and a block of whitespace in the body zone
SampleBlocks ==
    { TextBlock(<<"A", " ", "b">>, 5), TextBlock(<<"a", " ", " ", "b">>, 5),
      TextBlock(<<" ", "a", " ", "b">>, 0), TextBlock(<<"c">>, 10),
      TextBlock(<<" ">>, 5) }

RepeatThresholds == { 2, DefaultRepeatThreshold }

BlocksInit ==
    /\ SysIdle
    /\ pc = "call"
    /\ out = <<>>
    /\ \E blocks \in SeqsUpTo(SampleBlocks, MaxBlocks), threshold \in RepeatThresholds :
          inp = [self |-> DefaultExtractor, blocks |-> blocks, threshold |-> threshold]

FindRepeatedCall ==
    /\ pc = "call"
    /\ out' = [op |-> "find_repeated_headers",
               value |-> find_repeated_headers(inp.blocks, inp.threshold)]
    /\ pc' = "done"
    /\ UNCHANGED <<inp, sysvars>>

ExtractCall ==
    /\ pc = "call"
    /\ inp.threshold = DefaultRepeatThreshold
    /\ out' = [op |-> "extract",
               value |-> _extract_with_position_filtering(inp.self, inp.blocks)]
    /\ pc' = "done"
    /\ UNCHANGED <<inp, sysvars>>

\* a Python value with its type
PyValue(type, value) == [type |-> type, value |-> value]

\* a PDF file as the extractor sees it: its text blocks and its page count
PageCounts == { 1, 5 }
PdfFile(blocks, pages) == [blocks |-> blocks, pages |-> pages]

\* PDFBlockExtractor.extract_blocks: the list of blocks, and nothing else
extract_blocks(file) == PyValue("list", file.blocks)

\* _extract_with_position_filtering(file_path) with what it returns
PositionFilteringCall ==
    /\ pc = "call"
    /\ inp.threshold = DefaultRepeatThreshold
    /\ \E pages \in PageCounts :
          \E blocks \in { extract_blocks(PdfFile(inp.blocks, pages)).value } :
             out' = [op |-> "_extract_with_position_filtering",
                     pages |-> pages,
                     value |-> PyValue("str",
                                       _extract_with_position_filtering(inp.self, blocks))]
    /\ pc' = "done"
    /\ UNCHANGED <<inp, sysvars>>

BlocksNext == FindRepeatedCall \/ ExtractCall \/ PositionFilteringCall

SpecBlocks == BlocksInit /\ [][BlocksNext]_vars

\* how many blocks carry the normalized text n
Carriers(n) == Cardinality({ i \in 1..Len(inp.blocks) : Normalized(inp.blocks[i].text) = n })

\* C13: the repeated set holds exactly the non-empty normalized texts carried
\* by at least threshold blocks, whatever their zone: a text on exactly
\* threshold blocks is in, one on threshold - 1 blocks is out, and the empty
\* normalized text is never in.
C13_RepeatedSet ==
    (pc = "done" /\ out.op = "find_repeated_headers") =>
        /\ <<>> \notin out.value
        /\ \A i \in 1..Len(inp.blocks) :
              LET n == Normalized(inp.blocks[i].text)
              IN  /\ (n /= <<>> /\ Carriers(n) >= inp.threshold) => n \in out.value
                  /\ Carriers(n) < inp.threshold => n \notin out.value
        /\ \A n \in out.value : Carriers(n) >= inp.threshold

\* "a b" on exactly three blocks, one of them in the header zone: it is the
\* only member of the set
C13_Witness ==
    /\ pc = "done" /\ out.op = "find_repeated_headers" /\ inp.threshold = 3
    /\ Carriers(<<"a", " ", "b">>) = 3 /\ out.value = {<<"a", " ", "b">>}
    /\ \E i \in 1..Len(inp.blocks) : classify_zone(inp.self, inp.blocks[i]) = "header"

\* the blocks that survive: body zone, normalized text not in the repeated
\* set (empty, or carried by fewer than threshold blocks)
Survivors ==
    KeepAt(inp.blocks, { i \in 1..Len(inp.blocks) :
        /\ classify_zone(inp.self, inp.blocks[i]) = "body"
        /\ LET n == Normalized(inp.blocks[i].text)
           IN  n = <<>> \/ Carriers(n) < DefaultRepeatThreshold })

\* C14: the extracted text is exactly the texts of the blocks classified Body
\* whose normalized text is not in the repeated set, in block order, joined
\* by newlines.
C14_Extraction ==
    (pc = "done" /\ out.op = "extract") =>
        out.value = JoinLines([i \in 1..Len(Survivors) |-> Survivors[i].text])

\* "a b" on three blocks, two of them in the body zone: all three are dropped
\* and only the fourth block, in the body zone, is extracted
C14_Witness ==
    /\ pc = "done" /\ out.op = "extract"
    /\ Len(inp.blocks) = 4 /\ Carriers(<<"a", " ", "b">>) = 3
    /\ inp.blocks[1].text = <<"A", " ", "b">> /\ inp.blocks[2].text = <<" ">>
    /\ \E i \in 1..4 : classify_zone(inp.self, inp.blocks[i]) = "header"
    /\ out.value = <<" ">>

-----------------------------------------------------------------------------
(* ContentFilter (content_filter.py): the four regular expressions, matched  *)
(* the way re matches them, and the filter pipeline.                         *)

IsDigit(c) == c \in {"0", "1", "2", "3", "4", "5", "6", "7", "8", "9"}
IsLetter(c) == IsUpper(c) \/ c \in { LowerCase[i] : i \in 1..Len(LowerCase) }
\* \w, the characters between which \b finds no boundary
IsWordChar(c) == IsDigit(c) \/ IsLetter(c) \/ c = "_"
\* [ivxlcdm]
IsRoman(c) == c \in {"i", "v", "x", "l", "c", "d", "m"}
\* [0-9ivxlcdm] under re.IGNORECASE
IsChapterNumeral(c) == IsDigit(c) \/ IsRoman(Lower(c))

\* [A-Za-z0-9]
IsAlnum(c) == IsDigit(c) \/ IsLetter(c)

PUNCTUATION == { <<",">>, <<";">>, <<":">>, <<".">>, <<"!">>, <<"?">> }

\* the character classes the patterns repeat
InClass(class, c) ==
    CASE class = "\\s" -> IsSpace(c)
      [] class = "\\d" -> IsDigit(c)
      [] class = "[ivxlcdm]" -> IsRoman(c)
      [] class = "[0-9ivxlcdm]" -> IsChapterNumeral(c)
      [] class = "[A-Za-z0-9]" -> IsAlnum(c)
      [] class = "[^\\n]" -> c /= "\n"
      [] class = "no match" -> ~IsAlnum(c) /\ <<c>> \notin PUNCTUATION

\* the first index from i on whose character is outside the class (Len + 1 if
\* there is none): where a greedy \s*, \d+ ... started at i stops
RunEnd(s, i, class) ==
    LET stops == { j \in i..Len(s) : ~InClass(class, s[j]) }
    IN  IF stops = {} THEN Len(s) + 1 ELSE CHOOSE j \in stops : \A k \in stops : j <= k

\* the literal word w at index i, letters compared under re.IGNORECASE
HasWordAt(s, i, w) ==
    /\ i + Len(w) - 1 <= Len(s)
    /\ \A k \in 1..Len(w) : Lower(s[i + k - 1]) = w[k]

\* \b after a run of word characters that stops at index e
BoundaryAt(s, e) == e > Len(s) \/ ~IsWordChar(s[e])

\* word\s+[0-9ivxlcdm]+\b at index i
NumberedHeading(s, i, w) ==
    /\ HasWordAt(s, i, w)
    /\ LET a == i + Len(w)
           b == RunEnd(s, a, "\\s")
           e == RunEnd(s, b, "[0-9ivxlcdm]")
       IN  b > a /\ e > b /\ BoundaryAt(s, e)

\* CHAPTER_REGEX.search(ln)
CHAPTER_REGEX(ln) ==
    LET i == RunEnd(ln, 1, "\\s")
    IN  \/ NumberedHeading(ln, i, <<"c", "h", "a", "p", "t", "e", "r">>)
        \/ HasWordAt(ln, i, <<"p", "r", "o", "l", "o", "g", "u", "e">>) /\ BoundaryAt(ln, i + 8)
        \/ NumberedHeading(ln, i, <<"p", "a", "r", "t">>)
        \/ NumberedHeading(ln, i, <<"b", "o", "o", "k">>)

\* PAGE_NUMBER_REGEX.match(s), s already stripped
PAGE_NUMBER_REGEX(s) ==
    \/ s /= <<>> /\ RunEnd(s, 1, "\\d") > Len(s)
    \/ /\ HasWordAt(s, 1, <<"p", "a", "g", "e">>)
       /\ LET b == RunEnd(s, 5, "\\s")
              e == RunEnd(s, b, "\\d")
              o == RunEnd(s, e, "\\s")
              d == RunEnd(s, o + 2, "\\s")
          IN  /\ b > 5 /\ e > b
              /\ \/ e > Len(s)
                 \/ /\ HasWordAt(s, o, <<"o", "f">>)
                    /\ RunEnd(s, d, "\\d") > d
                    /\ RunEnd(s, d, "\\d") > Len(s)

\* where \[(\d+|[ivxlcdm]+)\] started at index i ends (0 if it does not match)
BracketMarkerEnd(s, i) ==
    IF i > Len(s) \/ s[i] /= "[" THEN 0
    ELSE LET d == RunEnd(s, i + 1, "\\d")
             r == RunEnd(s, i + 1, "[ivxlcdm]")
         IN  IF d > i + 1 /\ d <= Len(s) /\ s[d] = "]" THEN d
             ELSE IF r > i + 1 /\ r <= Len(s) /\ s[r] = "]" THEN r
             ELSE 0

\* INLINE_FOOTNOTE_REGEX.sub("", s): every match is cut out (two matches
\* never overlap, a marker holds no "[" after its first character)
INLINE_FOOTNOTE_REGEX_sub(s) ==
    LET starts == { i \in 1..Len(s) : s[i] = "[" /\ BracketMarkerEnd(s, i) > 0 }
        cut == UNION { i..BracketMarkerEnd(s, i) : i \in starts }
    IN  KeepAt(s, (1..Len(s)) \ cut)

\* FOOTNOTE_LINE_REGEX.match(s), s already stripped
FOOTNOTE_LINE_REGEX(s) ==
    LET m == BracketMarkerEnd(s, 1)
        d == RunEnd(s, 1, "\\d")
    IN  \/ m > 0 /\ m < Len(s) /\ IsSpace(s[m + 1])
        \/ d > 1 /\ d < Len(s) /\ s[d] \in {".", ")"} /\ IsSpace(s[d + 1])

\* str.splitlines() on text whose only line break is "\n"
RECURSIVE SplitLines(_)
SplitLines(s) ==
    IF s = <<>> THEN <<>>
    ELSE LET k == RunEnd(s, 1, "[^\\n]")
         IN  IF k > Len(s) THEN <<s>>
             ELSE <<SubSeq(s, 1, k - 1)>> \o SplitLines(SubSeq(s, k + 1, Len(s)))

\* limits written into the filter
ScanWindow == 1000
RepeatMaxLen == 80
FootnoteMaxLen == 200

\* ContentFilter.__init__ with no content_filtering settings
DefaultFilter ==
    [skip_frontmatter |-> TRUE, skip_page_numbers |-> TRUE, skip_footnotes |-> TRUE,
     skip_headers_footers |-> TRUE, frontmatter_skip_percent |-> Rat(1, 20),
     repeat_threshold |-> 3]

\* _find_content_start returns None
NoStart == -1

\* the scan that keeps the last marker instead of returning at the first
_find_content_start_Last(lines) ==
    LET found == { idx \in 0..(Len(lines) - 1) : idx < ScanWindow /\ CHAPTER_REGEX(lines[idx + 1]) }
    IN  IF found = {} THEN NoStart ELSE CHOOSE idx \in found : \A j \in found : j <= idx

\* index (from 0) of the first of lines[:1000] the chapter pattern matches
_find_content_start(lines) ==
    LET found == { idx \in 0..(Len(lines) - 1) : idx < ScanWindow /\ CHAPTER_REGEX(lines[idx + 1]) }
    IN  IF found = {} THEN NoStart ELSE CHOOSE idx \in found : \A j \in found : idx <= j

\* the fallback length rounded up
n_chars_RoundUp(self, text) ==
    LET p == self.frontmatter_skip_percent
    IN  (Len(text) * p[1] + p[2] - 1) \div p[2]

\* int(len(text) * self.frontmatter_skip_percent)
n_chars(self, text) ==
    LET p == self.frontmatter_skip_percent
    IN  (Len(text) * p[1]) \div p[2]

\* lines after the frontmatter stage (content_filter.py:61-71)
AfterFrontmatter(self, text) ==
    LET lines == SplitLines(text)
        start_idx == _find_content_start(lines)
    IN  IF ~self.skip_frontmatter THEN lines
        ELSE IF start_idx = NoStart
             THEN SplitLines(SubSeq(text, n_chars(self, text) + 1, Len(text)))
             ELSE SubSeq(lines, start_idx + 1, Len(lines))

\* norm of _remove_repeated_lines
LineNorm(ln) == CollapseWhitespace(LowerStr(Strip(ln)))

\* norm_map, as the tuple of the norms of the lines
RECURSIVE NormMap(_)
NormMap(lines) ==
    IF lines = <<>> THEN <<>> ELSE <<LineNorm(Head(lines))>> \o NormMap(Tail(lines))

\* the removal that already fires at repeat_threshold occurrences
_remove_repeated_lines_Ge(self, lines) ==
    LET norm_map == NormMap(lines)
        counted == { i \in 1..Len(lines) :
                        norm_map[i] /= <<>> /\ Len(norm_map[i]) <= RepeatMaxLen }
        freq == [i \in counted |-> Cardinality({ j \in counted : norm_map[j] = norm_map[i] })]
        repeated == { norm_map[i] : i \in { j \in counted : freq[j] >= self.repeat_threshold } }
    IN  KeepAt(lines, { i \in 1..Len(lines) : norm_map[i] \notin repeated })

_remove_repeated_lines(self, lines) ==
    LET norm_map == NormMap(lines)
        counted == { i \in 1..Len(lines) :
                        norm_map[i] /= <<>> /\ Len(norm_map[i]) <= RepeatMaxLen }
        freq == [i \in counted |-> Cardinality({ j \in counted : norm_map[j] = norm_map[i] })]
        repeated == { norm_map[i] : i \in { j \in counted : freq[j] > self.repeat_threshold } }
    IN  IF repeated = {} THEN lines
        ELSE KeepAt(lines, { i \in 1..Len(lines) : norm_map[i] \notin repeated })

\* the frequency stage (content_filter.py:74-75)
RepeatedStage(self, lines) ==
    IF self.skip_headers_footers THEN _remove_repeated_lines(self, lines) ELSE lines

\* the page-number stage (content_filter.py:78-79)
PageNumberStage(self, lines) ==
    IF self.skip_page_numbers
    THEN KeepAt(lines, { i \in 1..Len(lines) : ~PAGE_NUMBER_REGEX(Strip(lines[i])) })
    ELSE lines

\* the footnote stage that also trims the lines it keeps
StripFootnotes_Trimmed(joined) ==
    LET lines == SplitLines(INLINE_FOOTNOTE_REGEX_sub(joined))
        kept == KeepAt(lines, { i \in 1..Len(lines) :
            ~(FOOTNOTE_LINE_REGEX(Strip(lines[i])) /\ Len(Strip(lines[i])) <= FootnoteMaxLen) })
    IN  JoinLines([i \in 1..Len(kept) |-> Strip(kept[i])])

\* the footnote stage on the joined text (content_filter.py:85-94)
StripFootnotes(joined) ==
    LET lines == SplitLines(INLINE_FOOTNOTE_REGEX_sub(joined))
    IN  JoinLines(KeepAt(lines, { i \in 1..Len(lines) :
            ~(FOOTNOTE_LINE_REGEX(Strip(lines[i])) /\ Len(Strip(lines[i])) <= FootnoteMaxLen) }))

\* joining and the footnote stage (content_filter.py:82-95)
FootnoteStage(self, lines) ==
    IF self.skip_footnotes THEN StripFootnotes(JoinLines(lines)) ELSE JoinLines(lines)

\* each stage works on the value the stage before it produced
filter_text(self, text) ==
    IF text = <<>> THEN text
    ELSE CHOOSE joined \in
            { FootnoteStage(self, paged) : paged \in
                { PageNumberStage(self, unrepeated) : unrepeated \in
                    { RepeatedStage(self, lines) : lines \in
                        { AfterFrontmatter(self, text) } } } } : TRUE

-----------------------------------------------------------------------------
(* ContentFilter.filter_text on sample documents.  out records the value of  *)
(* `lines` after each stage and the returned text.                           *)

MaxLines == 4

HalfSkipFilter == [DefaultFilter EXCEPT !.frontmatter_skip_percent = Half]
EagerRepeatFilter == [DefaultFilter EXCEPT !.repeat_threshold = 1]

ChapterLine == <<"C", "h", "a", "p", "t", "e", "r", " ", "1">>
\* front matter, two chapter markers and a line that only looks like one
FrontLines == { ChapterLine, <<" ", "P", "R", "O", "L", "O", "G", "U", "E">>, <<"t", "a", "b", "l", "e", " ", "o", "f", " ", "c", "o", "n", "t", "e", "n", "t", "s">>, <<"p", "a", "r", "t", " ", "o", "n", "e">> }
\* two spellings of one line, another line, a blank line
RepeatLines == { <<"h", "e", "l", "l", "o">>, <<"H", "e", "l", "l", "o", " ">>, <<"x">>, <<>> }
\* footnote lines, an inline marker, a page number
NoteLines == { <<"1", ".", " ", "n", "o", "t", "e">>, <<"[", "2", "]", " ", "s", "e", "e">>, <<"a", "b", "[", "1", "]", " ", "c">>, <<"1", "2">> }

Filler(n) == [i \in 1..n |-> "x"]
\* repeated lines of 80 and of 81 characters, numbered notes of 200 and of 201
LongDocuments ==
    { <<ChapterLine, Filler(RepeatMaxLen), Filler(RepeatMaxLen)>>,
      <<ChapterLine, Filler(RepeatMaxLen + 1), Filler(RepeatMaxLen + 1)>>,
      <<ChapterLine, <<"1", ".", " ">> \o Filler(FootnoteMaxLen - 3)>>,
      <<ChapterLine, <<"1", ".", " ">> \o Filler(FootnoteMaxLen - 2)>> }

FilterInputs ==
    ({DefaultFilter, HalfSkipFilter} \X SeqsUpTo(FrontLines, MaxLines))
    \cup ({DefaultFilter, EagerRepeatFilter} \X SeqsUpTo(RepeatLines, MaxLines))
    \cup ({DefaultFilter} \X SeqsUpTo(NoteLines, MaxLines))
    \cup ({DefaultFilter, EagerRepeatFilter} \X LongDocuments)

FilterInit ==
    /\ SysIdle
    /\ pc = "call"
    /\ out = <<>>
    /\ \E i \in FilterInputs : inp = [self |-> i[1], text |-> JoinLines(i[2])]

FilterCall ==
    /\ pc = "call"
    /\ \E lines \in { AfterFrontmatter(inp.self, inp.text) } :
       \E unrepeated \in { RepeatedStage(inp.self, lines) } :
       \E paged \in { PageNumberStage(inp.self, unrepeated) } :
          out' = [after_frontmatter |-> lines,
                  after_repeated |-> unrepeated,
                  after_page_numbers |-> paged,
                  result |-> filter_text(inp.self, inp.text)]
    /\ pc' = "done"
    /\ UNCHANGED <<inp, sysvars>>

FilterNext == FilterCall

SpecFilter == FilterInit /\ [][FilterNext]_vars

\* the lines of the document, and those of them the chapter pattern matches
\* within the scan window
DocLines == SplitLines(inp.text)
Markers == { i \in 1..Len(DocLines) : i <= ScanWindow /\ CHAPTER_REGEX(DocLines[i]) }

\* C15: with skip_frontmatter on and a chapter marker among the first 1000
\* lines, the frontmatter stage drops every line before the first marker and
\* hands the marker line and everything after it to the later stages.
C15_SkipToMarker ==
    (pc = "done" /\ inp.self.skip_frontmatter /\ Markers /= {}) =>
        \E k \in Markers :
            /\ \A j \in Markers : k <= j
            /\ out.after_frontmatter = SubSeq(DocLines, k, Len(DocLines))

\* two lines of front matter dropped, then a marker with leading whitespace in
\* capitals, then a second marker that stays
C15_Witness ==
    /\ pc = "done" /\ inp.self = DefaultFilter
    /\ DocLines = << <<"t", "a", "b", "l", "e", " ", "o", "f", " ", "c", "o", "n", "t", "e", "n", "t", "s">>, <<"p", "a", "r", "t", " ", "o", "n", "e">>, <<" ", "P", "R", "O", "L", "O", "G", "U", "E">>, ChapterLine >>
    /\ out.after_frontmatter = << <<" ", "P", "R", "O", "L", "O", "G", "U", "E">>, ChapterLine >>

\* C16: with skip_frontmatter on and no chapter marker in the scan window,
\* the frontmatter stage drops exactly floor(len(text) * fraction) characters
\* from the start of the text, by character offset, and splits what is left
\* into lines.
C16_FallbackChars ==
    (pc = "done" /\ inp.self.skip_frontmatter /\ Markers = {} /\ inp.text /= <<>>) =>
        LET p == inp.self.frontmatter_skip_percent
            n == CHOOSE k \in 0..Len(inp.text) :
                     /\ k * p[2] <= Len(inp.text) * p[1]
                     /\ (k + 1) * p[2] > Len(inp.text) * p[1]
            rest == SubSeq(inp.text, n + 1, Len(inp.text))
        IN  rest \in { JoinLines(out.after_frontmatter),
                       JoinLines(out.after_frontmatter) \o <<"\n">> }

\* default fraction, 26 characters: one character is cut, inside the first line
C16_Witness ==
    /\ pc = "done" /\ inp.self = DefaultFilter /\ Markers = {}
    /\ DocLines = << <<"t", "a", "b", "l", "e", " ", "o", "f", " ", "c", "o", "n", "t", "e", "n", "t", "s">>, <<"p", "a", "r", "t", " ", "o", "n", "e">> >>
    /\ out.after_frontmatter = << <<"a", "b", "l", "e", " ", "o", "f", " ", "c", "o", "n", "t", "e", "n", "t", "s">>, <<"p", "a", "r", "t", " ", "o", "n", "e">> >>

\* the lines the frequency rule removes from the lines it is given
Removable(lines) ==
    { i \in 1..Len(lines) :
        LET norm == LineNorm(lines[i])
        IN  /\ norm /= <<>>
            /\ Len(norm) <= RepeatMaxLen
            /\ Cardinality({ j \in 1..Len(lines) : LineNorm(lines[j]) = norm })
                  > inp.self.repeat_threshold }

NoteLinesIn == SplitLines(JoinLines(out.after_page_numbers))
NoteLinesCut == SplitLines(INLINE_FOOTNOTE_REGEX_sub(JoinLines(out.after_page_numbers)))

\* C18: with skip_footnotes on, every line that starts with a bracketed
\* numeral / roman-numeral marker or an N. or N) prefix and whose trimmed
\* length is at most 200 is dropped from the output, no such line longer than
\* 200 is dropped, and the other lines stay (inline markers cut out).
C18_FootnoteLinesDropped ==
    (pc = "done" /\ inp.self.skip_footnotes /\ inp.text /= <<>>
        /\ Len(NoteLinesCut) = Len(NoteLinesIn)) =>
        out.result =
            JoinLines(KeepAt(NoteLinesCut, { i \in 1..Len(NoteLinesIn) :
                ~(/\ FOOTNOTE_LINE_REGEX(Strip(NoteLinesIn[i]))
                  /\ Len(Strip(NoteLinesIn[i])) <= FootnoteMaxLen) }))

\* a document free of what the filter removes: no line before a chapter
\* marker, no page-number line, no inline marker, no footnote line, no
\* non-blank line occurring twice
CleanDocument ==
    /\ Markers \subseteq {1}
    /\ \A i \in 1..Len(DocLines) :
          /\ ~PAGE_NUMBER_REGEX(Strip(DocLines[i]))
          /\ ~FOOTNOTE_LINE_REGEX(Strip(DocLines[i]))
          /\ \A j \in 1..Len(DocLines) :
                (i /= j /\ LineNorm(DocLines[i]) = LineNorm(DocLines[j]))
                    => LineNorm(DocLines[i]) = <<>>
    /\ \A i \in 1..Len(inp.text) : BracketMarkerEnd(inp.text, i) = 0

-----------------------------------------------------------------------------
(* Segmentation: _split_sentences (main.py), split_paragraphs and            *)
(* tokenize_paragraphs (rsvp_tokens.py).  The three full-width terminators   *)
(* are written by their code points.                                         *)

\* [.!?。！？]
IsTerminator(c) == c \in {".", "!", "?", "U+3002", "U+FF01", "U+FF1F"}

\* SENTENCE_SPLIT_REGEX.split(s): s is cut at every whitespace run that starts
\* right after a terminator
RECURSIVE SentenceSplit(_)
SentenceSplit(s) ==
    LET starts == { i \in 2..Len(s) : IsSpace(s[i]) /\ IsTerminator(s[i - 1]) }
        first == CHOOSE k \in starts : \A j \in starts : k <= j
    IN  IF starts = {} THEN <<s>>
        ELSE <<SubSeq(s, 1, first - 1)>>
                \o SentenceSplit(SubSeq(s, RunEnd(s, first, "\\s"), Len(s)))

\* [p.strip() for p in parts if p and p.strip()]
StripParts(parts) ==
    LET kept == KeepAt(parts, { i \in 1..Len(parts) : Strip(parts[i]) /= <<>> })
    IN  [i \in 1..Len(kept) |-> Strip(kept[i])]

_split_sentences(text) ==
    LET stripped == Strip(text)
        parts == SentenceSplit(stripped)
    IN  IF stripped = <<>> THEN <<>>
        ELSE IF Len(parts) <= 1 THEN StripParts(StripParts(SplitLines(stripped)))
        ELSE StripParts(parts)

\* re.split(r"(?<=[.!?])\s+", s) of the parsers: only the three ASCII
\* terminators end a sentence
RECURSIVE AsciiSentenceSplit(_)
AsciiSentenceSplit(s) ==
    LET starts == { i \in 2..Len(s) : IsSpace(s[i]) /\ s[i - 1] \in {".", "!", "?"} }
        first == CHOOSE k \in starts : \A j \in starts : k <= j
    IN  IF starts = {} THEN <<s>>
        ELSE <<SubSeq(s, 1, first - 1)>>
                \o AsciiSentenceSplit(SubSeq(s, RunEnd(s, first, "\\s"), Len(s)))

\* PDFParser._split_sentences (EPUBParser and DOCXParser have the same body)
PDFParser_split_sentences(text) == StripParts(AsciiSentenceSplit(Strip(text)))

\* re.split(r"\n\s*\n+", s): s is cut from the first to the last newline of
\* every whitespace run that holds at least two newlines
RECURSIVE ParagraphSplit(_)
ParagraphSplit(s) ==
    LET starts == { i \in 1..Len(s) :
                       /\ s[i] = "\n"
                       /\ \E j \in (i + 1)..(RunEnd(s, i, "\\s") - 1) : s[j] = "\n" }
        first == CHOOSE k \in starts : \A j \in starts : k <= j
        run == first..(RunEnd(s, first, "\\s") - 1)
        stop == CHOOSE k \in run : s[k] = "\n" /\ \A j \in run : s[j] = "\n" => j <= k
    IN  IF starts = {} THEN <<s>>
        ELSE <<SubSeq(s, 1, first - 1)>> \o ParagraphSplit(SubSeq(s, stop + 1, Len(s)))

\* the split that keeps empty chunks
split_paragraphs_KeepEmpty(text) ==
    LET chunks == ParagraphSplit(Strip(text))
    IN  [i \in 1..Len(chunks) |-> Strip(chunks[i])]

split_paragraphs(text) == StripParts(ParagraphSplit(Strip(text)))

\* word_re.findall(s) from index i on
RECURSIVE FindAll(_, _)
FindAll(s, i) ==
    LET b == RunEnd(s, i, "no match")
        e1 == RunEnd(s, b, "[A-Za-z0-9]")
        e == IF e1 < Len(s) /\ s[e1] \in {"'", "-"} /\ IsAlnum(s[e1 + 1])
             THEN RunEnd(s, e1 + 1, "[A-Za-z0-9]") ELSE e1
    IN  IF b > Len(s) THEN <<>>
        ELSE IF IsAlnum(s[b]) THEN <<SubSeq(s, b, e - 1)>> \o FindAll(s, e)
        ELSE << <<s[b]>> >> \o FindAll(s, b + 1)

\* the loop body that takes every attached punctuation for a sentence end
AddMatch_EveryPunctEnds(tokens, match, p_index) ==
    IF match \in PUNCTUATION /\ tokens /= <<>>
    THEN LET prev == tokens[Len(tokens)]
         IN  [tokens EXCEPT ![Len(tokens)] =
                 [text |-> prev.text, punct |-> match, sentence_end |-> TRUE,
                  paragraph_index |-> prev.paragraph_index]]
    ELSE Append(tokens, [text |-> match, punct |-> <<>>, sentence_end |-> FALSE,
                         paragraph_index |-> p_index])

\* one pass of the inner loop of tokenize_paragraphs
AddMatch(tokens, match, p_index) ==
    IF match \in PUNCTUATION /\ tokens /= <<>>
    THEN LET prev == tokens[Len(tokens)]
         IN  [tokens EXCEPT ![Len(tokens)] =
                 [text |-> prev.text, punct |-> match,
                  sentence_end |-> (match \in { <<".">>, <<"!">>, <<"?">> }) \/ prev.sentence_end,
                  paragraph_index |-> prev.paragraph_index]]
    ELSE Append(tokens, [text |-> match, punct |-> <<>>, sentence_end |-> FALSE,
                         paragraph_index |-> p_index])

RECURSIVE AddMatches(_, _, _)
AddMatches(tokens, matches, p_index) ==
    IF matches = <<>> THEN tokens
    ELSE AddMatches(AddMatch(tokens, Head(matches), p_index), Tail(matches), p_index)

\* the outer loop of tokenize_paragraphs from paragraph p_index (from 0) on
RECURSIVE TokenizeFrom(_, _, _)
TokenizeFrom(tokens, paragraphs, p_index) ==
    IF p_index >= Len(paragraphs) THEN tokens
    ELSE TokenizeFrom(AddMatches(tokens, FindAll(paragraphs[p_index + 1], 1), p_index),
                      paragraphs, p_index + 1)

tokenize_paragraphs(paragraphs) == TokenizeFrom(<<>>, paragraphs, 0)

-----------------------------------------------------------------------------
(* The text utilities called on short texts, the empty and the               *)
(* whitespace-only ones included.                                            *)

MaxChars == 4

SegmentChars == { "a", ".", ",", " ", "\n", "U+3002" }
SegmentSpeeds == { Zero, START_SPEED }

SegmentInit ==
    /\ SysIdle
    /\ pc = "call"
    /\ out = <<>>
    /\ \E text \in SeqsUpTo(SegmentChars, MaxChars) : inp = [text |-> text]

\* ContentFilter().filter_text(text)
FilterTextCall ==
    /\ pc = "call"
    /\ out' = [op |-> "filter_text", value |-> filter_text(DefaultFilter, inp.text)]
    /\ pc' = "done"
    /\ UNCHANGED <<inp, sysvars>>

SplitSentencesCall ==
    /\ pc = "call"
    /\ out' = [op |-> "_split_sentences", value |-> _split_sentences(inp.text)]
    /\ pc' = "done"
    /\ UNCHANGED <<inp, sysvars>>

\* self._split_sentences(filtered_text) in PDFParser.parse_file
ParserSplitSentencesCall ==
    /\ pc = "call"
    /\ out' = [op |-> "PDFParser._split_sentences",
               value |-> PDFParser_split_sentences(inp.text)]
    /\ pc' = "done"
    /\ UNCHANGED <<inp, sysvars>>

SplitParagraphsCall ==
    /\ pc = "call"
    /\ out' = [op |-> "split_paragraphs", value |-> split_paragraphs(inp.text)]
    /\ pc' = "done"
    /\ UNCHANGED <<inp, sysvars>>

\* tokenize_paragraphs(split_paragraphs(raw_text)) as in get_book
TokenizeCall ==
    /\ pc = "call"
    /\ \E paragraphs \in { split_paragraphs(inp.text) } :
          out' = [op |-> "tokenize_paragraphs",
                  paragraphs |-> paragraphs,
                  value |-> tokenize_paragraphs(paragraphs)]
    /\ pc' = "done"
    /\ UNCHANGED <<inp, sysvars>>

\* _calculate_sentence_durations(_split_sentences(text), speed)
SegmentDurationsCall ==
    /\ pc = "call"
    /\ \E speed \in SegmentSpeeds, sentences \in { _split_sentences(inp.text) } :
          out' = [op |-> "_calculate_sentence_durations",
                  sentences |-> sentences, speed |-> speed,
                  result |-> IF DurationsRaise(sentences, speed)
                             THEN Raised("ZeroDivisionError")
                             ELSE Returned(_calculate_sentence_durations(sentences, speed))]
    /\ pc' = "done"
    /\ UNCHANGED <<inp, sysvars>>

SegmentNext ==
    \/ FilterTextCall
    \/ SplitSentencesCall
    \/ ParserSplitSentencesCall
    \/ SplitParagraphsCall
    \/ TokenizeCall
    \/ SegmentDurationsCall

SpecSegment == SegmentInit /\ [][SegmentNext]_vars

\* C20: the empty text comes back from the filter unchanged; an empty or
\* whitespace-only text has no sentences and no paragraphs; zero paragraphs
\* give zero tokens; zero sentences give an empty duration list at any speed,
\* and nothing raises.
C20_EmptyInput ==
    pc = "done" =>
        /\ (out.op = "filter_text" /\ inp.text = <<>>) => out.value = <<>>
        /\ (out.op \in {"_split_sentences", "split_paragraphs"} /\ Strip(inp.text) = <<>>)
              => out.value = <<>>
        /\ (out.op = "tokenize_paragraphs" /\ out.paragraphs = <<>>) => out.value = <<>>
        /\ (out.op = "_calculate_sentence_durations" /\ out.sentences = <<>>)
              => out.result = Returned(<<>>)

\* a text of a blank, a newline and another newline split into paragraphs
C20_Witness ==
    /\ pc = "done" /\ out.op = "split_paragraphs"
    /\ inp.text = <<" ", "\n", "\n">> /\ out.value = <<>>

-----------------------------------------------------------------------------
(* Sentence splitting as a contract.                                         *)

\* the maximal runs of positions of t outside cut, as strings, left to right
Runs(t, cut) ==
    LET kept == (1..Len(t)) \ cut
        begins == { a \in kept : a - 1 \notin kept }
        EndOf(a) == CHOOSE b \in a..Len(t) : (a..b) \subseteq kept /\ b + 1 \notin kept
        Nth(k) == CHOOSE a \in begins : Cardinality({ x \in begins : x < a }) = k - 1
    IN  [k \in 1..Cardinality(begins) |-> SubSeq(t, Nth(k), EndOf(Nth(k)))]

\* the positions of the whitespace runs that start right after a terminator
BreakPositions(t) ==
    { i \in 2..Len(t) :
        \E j \in 2..i : /\ IsTerminator(t[j - 1])
                        /\ \A k \in j..i : IsSpace(t[k]) }

\* trimmed, without the empty ones, in order
TrimmedNonEmpty(parts) ==
    LET keep == { i \in 1..Len(parts) : \E j \in 1..Len(parts[i]) : ~IsSpace(parts[i][j]) }
        Nth(k) == CHOOSE i \in keep : Cardinality({ x \in keep : x < i }) = k - 1
    IN  [k \in 1..Cardinality(keep) |-> Strip(parts[Nth(k)])]

SplitContract(text) ==
    LET t == Strip(text)
        pieces == Runs(t, BreakPositions(t))
        physical == Runs(t, { i \in 1..Len(t) : t[i] = "\n" })
    IN  TrimmedNonEmpty(IF Len(pieces) <= 1 THEN physical ELSE pieces)

\* the contract as kept by _split_sentences of main.py
MainSplitContract ==
    (pc = "done" /\ out.op = "_split_sentences") => out.value = SplitContract(inp.text)

\* C21: every sentence splitter cuts the text at the whitespace runs that
\* follow a terminator (the three full-width ones included); with at most one
\* piece it returns one sentence per non-blank line; the sentences are trimmed,
\* non-empty and in input order.
C21_SplitSentences ==
    /\ MainSplitContract
    /\ (pc = "done" /\ out.op = "PDFParser._split_sentences")
          => out.value = SplitContract(inp.text)

-----------------------------------------------------------------------------
(* The token stream as a contract.                                           *)

\* every match of every paragraph with the index of its paragraph, in order
RECURSIVE MatchesFrom(_, _)
MatchesFrom(paragraphs, p_index) ==
    IF p_index >= Len(paragraphs) THEN <<>>
    ELSE LET found == FindAll(paragraphs[p_index + 1], 1)
         IN  [k \in 1..Len(found) |-> [match |-> found[k], paragraph_index |-> p_index]]
                \o MatchesFrom(paragraphs, p_index + 1)

\* one token per word-like match; the punctuation matches up to the next word
\* attach to it, the last one staying in punct; those before the first word
\* are dropped
TokenContract(paragraphs) ==
    LET all == MatchesFrom(paragraphs, 0)
        words == { i \in 1..Len(all) : all[i].match \notin PUNCTUATION }
        Nth(k) == CHOOSE i \in words : Cardinality({ x \in words : x < i }) = k - 1
        Until(i) == IF \E j \in words : j > i
                    THEN (CHOOSE j \in words : j > i /\ \A x \in words : x > i => j <= x) - 1
                    ELSE Len(all)
        Token(i) == [text |-> all[i].match,
                     punct |-> IF Until(i) > i THEN all[Until(i)].match ELSE <<>>,
                     sentence_end |-> \E j \in (i + 1)..Until(i) :
                                         all[j].match \in { <<".">>, <<"!">>, <<"?">> },
                     paragraph_index |-> all[i].paragraph_index]
    IN  [k \in 1..Cardinality(words) |-> Token(Nth(k))]

\* C22: the tokens are the word-like matches in order, each with the index of
\* its paragraph; a punctuation match makes no token, it sets punct of the token
\* before it (and sentence_end for . ! ?); punctuation before the first token of
\* the call is dropped.
C22_Tokenize ==
    (pc = "done" /\ out.op = "tokenize_paragraphs")
        => out.value = TokenContract(out.paragraphs)

\* the same for the texts whose first match is a word
TokenContractAfterWord ==
    (/\ pc = "done" /\ out.op = "tokenize_paragraphs"
     /\ MatchesFrom(out.paragraphs, 0) /= <<>>
     /\ MatchesFrom(out.paragraphs, 0)[1].match \notin PUNCTUATION)
        => out.value = TokenContract(out.paragraphs)

-----------------------------------------------------------------------------
(* Claims about the cursor handlers, checked under Spec *)

\* index i (from 0) is where position_seconds falls in the table: the first
\* entry whose cumulative end lies beyond it, the last entry when none does
Agrees(durations, position_seconds, i) ==
    LET hits == { k \in 0..(Len(durations) - 1) : Before(durations, position_seconds, k) }
    IN  IF hits = {} THEN i = Len(durations) - 1
        ELSE i \in hits /\ \A k \in hits : i <= k

\* C23: a seek on a loaded, non-empty book stores max(0, position) and, in the
\* same step, the sentence index of that position in the stored duration
\* table, which is a valid index of the sentence list; with no book loaded the
\* seek fails and the cursor stays as it was.
C23_Sync ==
    [][ (last'.op = "sync") =>
          /\ (BookLoaded /\ Sentences # <<>>) =>
                /\ last'.status = 200
                /\ ps'.position_seconds = RMax(Zero, last'.req)
                /\ ps'.current_sentence_index \in 0..(Len(Sentences) - 1)
                /\ Agrees(ps'.sentence_durations_json, ps'.position_seconds,
                          ps'.current_sentence_index)
                /\ ps'.sentence_durations_json = ps.sentence_durations_json
                /\ book' = book
          /\ ~BookLoaded => (last'.status # 200 /\ ps' = ps) ]_vars

\* a seek past the end of a three-sentence book, served while the cursor was
\* on the first sentence
C23_Witness ==
    /\ last.op = "sync" /\ last.status = 200 /\ last.req = RInt(5)
    /\ Len(Sentences) = 3
    /\ ps.position_seconds = RInt(5) /\ ps.current_sentence_index = 2

\* a speed clamped into [0.5, 3.0]
Clamped(speed) ==
    IF RLt(speed, Half) THEN Half ELSE IF RLt(RInt(3), speed) THEN RInt(3) ELSE speed

\* C24: an update stores max(0, position) when a position is supplied and the
\* speed clamped into [0.5, 3.0] when a speed is supplied; a field that is not
\* supplied keeps its value; the sentence index, the duration table and the
\* session start never change; an update with neither field changes nothing,
\* last_updated included.
C24_PartialUpdate ==
    [][ (last'.op = "update") =>
          LET position_seconds == last'.req[1]
              speed == last'.req[2]
          IN  /\ ps'.position_seconds = IF position_seconds # NotGiven
                                        THEN RMax(Zero, position_seconds)
                                        ELSE ps.position_seconds
              /\ ps'.speed = IF speed # NotGiven THEN Clamped(speed) ELSE ps.speed
              /\ ps'.current_sentence_index = ps.current_sentence_index
              /\ ps'.sentence_durations_json = ps.sentence_durations_json
              /\ ps'.session_start = ps.session_start
              /\ book' = book
              /\ (position_seconds = NotGiven /\ speed = NotGiven) => ps' = ps ]_vars

\* a speed-only update, later than a seek to second 5 of a loaded book: the
\* speed is capped at 3.0 and the position and the sentence index are kept
C24_Witness ==
    /\ last.op = "update" /\ last.req = <<NotGiven, RInt(4)>>
    /\ ps.speed = RInt(3) /\ ps.position_seconds = RInt(5)
    /\ ps.current_sentence_index = 2 /\ ps.last_updated > 0

-----------------------------------------------------------------------------
(* Concurrent requests.  Every route that touches the cursor is an           *)
(* `async def` without an await in its body, served by the one event loop of *)
(* uvicorn.run: from its first db.get to its db.commit() a handler is not    *)
(* interrupted by another one.  Only the session dependency get_db runs      *)
(* outside that stretch, in the thread pool: it opens the session before the *)
(* body and closes it after the response.                                    *)

MaxRequests == 3

\* the two rows a handler reads and commits
Rows(b, p) == [book |-> b, ps |-> p]

\* a handler working on the rows as they were when its request arrived
RowsRead_OnArrival == Rows(inp.book, inp.ps)

\* the rows a handler works on: those committed when its body starts
RowsRead == Rows(book, ps)

\* the rows committed by the handler of one request that found the rows db
Handle(op, req, db) ==
    LET loaded == db.book # NoBook
        sentences == IF loaded THEN db.book[1].content_json ELSE <<>>
        durations == db.ps.sentence_durations_json
        served == loaded /\ sentences # <<>> /\ durations # <<>>
    IN  CASE op = "import" ->
               IF (SINGLE_BOOK_MODE /\ loaded) \/ DurationsRaise(req, START_SPEED) THEN db
               ELSE Rows(<< [content_json |-> req] >>,
                         [position_seconds |-> Zero, speed |-> START_SPEED,
                          session_start |-> clock, last_updated |-> clock,
                          sentence_durations_json |->
                              _calculate_sentence_durations(req, START_SPEED),
                          current_sentence_index |-> 0])
          [] op = "close" ->
               Rows(NoBook, [db.ps EXCEPT !.position_seconds = Zero, !.speed = START_SPEED,
                                          !.session_start = clock, !.last_updated = clock])
          [] op = "speed" ->
               Rows(db.book,
                    [db.ps EXCEPT !.speed = _compute_adaptive_speed(settings,
                                                    clock - db.ps.session_start),
                                  !.last_updated = clock])
          [] op = "update" ->
               LET ps1 == IF req[1] # NotGiven
                          THEN [db.ps EXCEPT !.position_seconds = RMax(Zero, req[1])]
                          ELSE db.ps
                   ps2 == IF req[2] # NotGiven
                          THEN [ps1 EXCEPT !.speed = ClampSpeed(req[2])] ELSE ps1
               IN  IF req[1] # NotGiven \/ req[2] # NotGiven
                   THEN Rows(db.book, [ps2 EXCEPT !.last_updated = clock])
                   ELSE db
          [] op = "current-sentence" ->
               IF ~served THEN db
               ELSE Rows(db.book,
                         [db.ps EXCEPT !.current_sentence_index =
                                           _get_sentence_at_position(sentences, durations,
                                                                     db.ps.position_seconds),
                                       !.last_updated = clock])
          [] op = "sync" ->
               IF ~served THEN db
               ELSE Rows(db.book,
                         [db.ps EXCEPT !.position_seconds = RMax(Zero, req),
                                       !.current_sentence_index =
                                           _get_sentence_at_position(sentences, durations,
                                                                     RMax(Zero, req)),
                                       !.last_updated = clock])

\* every step of Spec that serves a request commits what Handle computes
HandleIsTheHandlers ==
    [][ (last'.op # "none") => Rows(book', ps') = Handle(last'.op, last'.req, Rows(book, ps)) ]_vars

\* the requests that may be in flight together; a request is known by its
\* place in this list
CursorRequests ==
    << [op |-> "update", req |-> <<Rat(9, 10), NotGiven>>],
       [op |-> "update", req |-> <<NotGiven, RInt(4)>>],
       [op |-> "sync", req |-> RInt(5)],
       [op |-> "current-sentence", req |-> <<>>],
       [op |-> "speed", req |-> <<>>],
       [op |-> "import", req |-> <<Short>>],
       [op |-> "close", req |-> <<>>] >>

\* the rows the requests may find: those of startup, and those left by the
\* import of a three-sentence book at time 0
ArrivalRows ==
    { Rows(NoBook, [position_seconds |-> Zero, speed |-> START_SPEED,
                    session_start |-> 0, last_updated |-> 0,
                    current_sentence_index |-> 0, sentence_durations_json |-> Null]),
      Rows(<< [content_json |-> <<Short, Long, Short>>] >>,
           [position_seconds |-> Zero, speed |-> START_SPEED,
            session_start |-> 0, last_updated |-> 0,
            current_sentence_index |-> 0,
            sentence_durations_json |->
                _calculate_sentence_durations(<<Short, Long, Short>>, START_SPEED)]) }

\* several books allowed, or one book and a ramp of one step a minute
CursorSettings == { cfg \in SystemSettings : cfg # DefaultSettings }

\* one minute after startup a set of requests arrives
CursorInit ==
    /\ settings \in CursorSettings
    /\ clock = 60
    /\ last = NoRequest
    /\ \E db \in ArrivalRows : book = db.book /\ ps = db.ps
    /\ \E arrived \in SUBSET (1..Len(CursorRequests)) :
          /\ arrived # {} /\ Cardinality(arrived) <= MaxRequests
          /\ inp = [requests |-> arrived, book |-> book, ps |-> ps]
          /\ pc = [r \in arrived |-> "accepted"]
    /\ out = <<>>

\* get_db up to its yield: the session of request r is opened in the thread pool
OpenSession(r) ==
    /\ pc[r] = "accepted"
    /\ pc' = [pc EXCEPT ![r] = "session"]
    /\ UNCHANGED <<sysvars, last, inp, out>>

\* the body of the handler of request r, from db.get to db.commit()
Serve(r) ==
    /\ pc[r] = "session"
    /\ \E db \in { Handle(CursorRequests[r].op, CursorRequests[r].req, RowsRead) } :
          book' = db.book /\ ps' = db.ps
    /\ pc' = [pc EXCEPT ![r] = "responded"]
    /\ out' = Append(out, r)
    /\ UNCHANGED <<settings, clock, last, inp>>

\* get_db after its yield: db.close()
CloseSession(r) ==
    /\ pc[r] = "responded"
    /\ pc' = [pc EXCEPT ![r] = "closed"]
    /\ UNCHANGED <<sysvars, last, inp, out>>

CursorNext ==
    \/ \E r \in inp.requests : OpenSession(r)
    \/ \E r \in inp.requests : Serve(r)
    \/ \E r \in inp.requests : CloseSession(r)

SpecCursor == CursorInit /\ [][CursorNext]_vars

\* the rows that serving all of the requests one after the other, in some
\* order, can leave
RECURSIVE SerialResults(_, _)
SerialResults(requests, db) ==
    IF requests = {} THEN { db }
    ELSE UNION { SerialResults(requests \ {r},
                               Handle(CursorRequests[r].op, CursorRequests[r].req, db)) :
                   r \in requests }

\* the requests whose handler has committed
Committed == { r \in inp.requests : pc[r] \in {"responded", "closed"} }

\* C25: under every interleaving of concurrent requests the stored rows are
\* those that serving the committed requests one at a time, in some order,
\* leaves on the rows they arrived at; right after a seek or a current-sentence
\* request is served on a loaded book, the stored sentence index is the one of
\* the stored position.
C25_Serial ==
    /\ Rows(book, ps) \in SerialResults(Committed, Rows(inp.book, inp.ps))
    /\ (/\ out # <<>>
        /\ CursorRequests[out[Len(out)]].op \in {"sync", "current-sentence"}
        /\ BookLoaded /\ Sentences # <<>>)
          => Agrees(ps.sentence_durations_json, ps.position_seconds,
                    ps.current_sentence_index)

\* a seek to second 5, an update of the speed and a current-sentence request
\* arrived together on a loaded book and have all been served, the seek last
C25_Witness ==
    /\ inp.requests = {2, 3, 4}
    /\ \A r \in inp.requests : pc[r] = "closed"
    /\ out[3] = 3
    /\ ps.position_seconds = RInt(5) /\ ps.current_sentence_index = 2
    /\ ps.speed = RInt(3)

-----------------------------------------------------------------------------
(* The lazily built speech service.  _get_local_tts_service (main.py) fills  *)
(* the global _LOCAL_TTS_SERVICE under _LOCAL_TTS_LOCK, and                  *)
(* CoquiTTSService._load (tts/coqui.py) fills self._tts under                *)
(* self._load_lock, with the same steps: look at the slot, take the lock,    *)
(* look again, build, store, leave the lock, return the slot.  The callers   *)
(* are threads: synthesize_to_file runs in the executor.                     *)

MaxCallers == 2
MaxFailures == 1

NoInstance == 0         \* the slot holds None
Unlocked == 0

\* the second look at the slot, skipped: whoever gets the lock builds
BuildUnderLock_Always(slot) == TRUE

\* `if _LOCAL_TTS_SERVICE is None:` / `if self._tts is None:` under the lock
BuildUnderLock(slot) == slot = NoInstance

LazyFunctions == { "_get_local_tts_service", "CoquiTTSService._load" }

LazyInit ==
    /\ SysIdle
    /\ \E f \in LazyFunctions, enabled \in BOOLEAN :
          /\ (f = "CoquiTTSService._load") => enabled
          /\ inp = [function |-> f, enabled |-> enabled, callers |-> 1..MaxCallers]
    /\ pc = [t \in 1..MaxCallers |-> "idle"]
    /\ out = [slot |-> NoInstance, lock |-> Unlocked, built |-> 0, failed |-> 0,
              got |-> [t \in 1..MaxCallers |-> NoInstance]]

At(t, where) == pc[t] = where
Goto(t, where) == pc' = [pc EXCEPT ![t] = where]

\* a thread enters the function (again, if its last call raised)
LazyCall(t) ==
    /\ pc[t] \in {"idle", "raised"}
    /\ Goto(t, IF inp.enabled THEN "look" ELSE "raised")
    /\ UNCHANGED <<inp, out, sysvars>>

\* the look at the slot without the lock; a filled slot is returned at once
LazyLook(t) ==
    /\ At(t, "look")
    /\ IF out.slot # NoInstance
       THEN /\ Goto(t, "returned")
            /\ out' = [out EXCEPT !.got[t] = out.slot]
       ELSE /\ Goto(t, "acquire")
            /\ UNCHANGED out
    /\ UNCHANGED <<inp, sysvars>>

\* `with lock:` entered
LazyAcquire(t) ==
    /\ At(t, "acquire")
    /\ out.lock = Unlocked
    /\ out' = [out EXCEPT !.lock = t]
    /\ Goto(t, IF BuildUnderLock(out.slot) THEN "build" ELSE "release")
    /\ UNCHANGED <<inp, sysvars>>

\* the import and the constructor succeed: the new instance is stored
LazyBuild(t) ==
    /\ At(t, "build")
    /\ out' = [out EXCEPT !.slot = out.built + 1, !.built = out.built + 1]
    /\ Goto(t, "release")
    /\ UNCHANGED <<inp, sysvars>>

\* the import or the constructor raises: the exception leaves the `with`
\* block, which releases the lock, and nothing is stored
LazyBuildFails(t) ==
    /\ At(t, "build")
    /\ out.failed < MaxFailures
    /\ out' = [out EXCEPT !.lock = Unlocked, !.failed = out.failed + 1]
    /\ Goto(t, "raised")
    /\ UNCHANGED <<inp, sysvars>>

\* the `with` block left normally
LazyRelease(t) ==
    /\ At(t, "release")
    /\ out' = [out EXCEPT !.lock = Unlocked]
    /\ Goto(t, "return")
    /\ UNCHANGED <<inp, sysvars>>

\* `return _LOCAL_TTS_SERVICE` / `return self._tts`
LazyReturn(t) ==
    /\ At(t, "return")
    /\ out' = [out EXCEPT !.got[t] = out.slot]
    /\ Goto(t, "returned")
    /\ UNCHANGED <<inp, sysvars>>

LazyNext ==
    \/ \E t \in inp.callers : LazyCall(t)
    \/ \E t \in inp.callers : LazyLook(t)
    \/ \E t \in inp.callers : LazyAcquire(t)
    \/ \E t \in inp.callers : LazyBuild(t)
    \/ \E t \in inp.callers : LazyBuildFails(t)
    \/ \E t \in inp.callers : LazyRelease(t)
    \/ \E t \in inp.callers : LazyReturn(t)

SpecLazy == LazyInit /\ [][LazyNext]_vars

\* C26: under every interleaving the constructor completes at most once, all
\* the callers that return get the one instance, and a construction that
\* failed leaves the slot empty and the lock free for the next caller.
C26_InitOnce ==
    /\ out.built <= 1
    /\ \A t \in inp.callers :
          At(t, "returned") => (out.got[t] # NoInstance /\ out.got[t] = out.slot)
    /\ \A t, u \in inp.callers :
          (At(t, "returned") /\ At(u, "returned")) => out.got[t] = out.got[u]
    /\ (out.built = 0) => out.slot = NoInstance
    /\ (out.lock # Unlocked) => pc[out.lock] \in {"build", "release"}

\* a construction failed, the caller tried again, and every caller has
\* returned the one instance built afterwards
C26_Witness ==
    /\ out.failed = 1 /\ out.built = 1
    /\ \A t \in inp.callers : At(t, "returned") /\ out.got[t] = 1

-----------------------------------------------------------------------------
(* The handlers under a settings file whose start_speed is not positive:     *)
(* START_SPEED is float(playback.start_speed), read as it is.                *)

ConfiguredSettings ==
    { [DefaultSettings EXCEPT !.start_speed = Zero],
      [DefaultSettings EXCEPT !.start_speed = RSub(Zero, Half), !.single_book_mode = FALSE] }

ConfiguredInit ==
    /\ settings \in ConfiguredSettings
    /\ book = NoBook
    /\ clock = 0
    /\ ps = [position_seconds |-> Zero, speed |-> START_SPEED,
             session_start |-> 0, last_updated |-> 0,
             current_sentence_index |-> 0, sentence_durations_json |-> Null]
    /\ last = NoRequest
    /\ FnIdle

SpecConfigured == ConfiguredInit /\ [][Next]_vars

\* C27: every import that gets as far as _upsert_current_book, where the
\* durations are estimated at START_SPEED, runs with START_SPEED > 0.
C27_PositiveSpeed ==
    [][ (last'.op = "import" /\ last'.status # 409) => RLt(Zero, START_SPEED) ]_vars

-----------------------------------------------------------------------------
(* What _extract_with_position_filtering hands back. *)

\* C28: the call returns the pair of the position-filtered text and the page
\* count of the file.
C28_TextAndPageCount ==
    (pc = "done" /\ out.op = "_extract_with_position_filtering") =>
        /\ out.value.type = "tuple"
        /\ Len(out.value.value) = 2
        /\ out.value.value[1] = JoinLines([i \in 1..Len(Survivors) |-> Survivors[i].text])
        /\ out.value.value[2] = out.pages

\* the text part alone: the value returned is the position-filtered text
PositionFilteredText ==
    (pc = "done" /\ out.op = "_extract_with_position_filtering") =>
        out.value = PyValue("str", JoinLines([i \in 1..Len(Survivors) |-> Survivors[i].text]))

-----------------------------------------------------------------------------
(* One book at a time, checked under Spec *)

\* C29: in single-book mode an import that finds a book loaded is answered
\* 409 and leaves the book and the whole playback row as they were; a book
\* can only take the place of no book, and there is never more than one.
C29_SingleBook ==
    [][ /\ Len(book) <= 1 /\ Len(book') <= 1
        /\ (SINGLE_BOOK_MODE /\ BookLoaded) =>
              /\ (last'.op = "import") => (last'.status = 409 /\ book' = book /\ ps' = ps)
              /\ book' \in {book, NoBook}
              /\ (book' = NoBook) => last'.op = "close" ]_vars

\* the import of a two-sentence book refused while a one-sentence book is
\* being played at second 5 with speed 3.0
C29_Witness ==
    /\ SINGLE_BOOK_MODE /\ last.op = "import" /\ last.status = 409
    /\ Len(last.req) = 2 /\ Len(Sentences) = 1
    /\ ps.position_seconds = RInt(5) /\ ps.speed = RInt(3)

-----------------------------------------------------------------------------
(* What holds of every token. *)

Terminal == { <<".">>, <<"!">>, <<"?">> }

\* the fields of every token are well-formed and the paragraph indices are
\* valid and do not decrease
TokensWellFormed(tokens, paragraphs) ==
    /\ \A k \in 1..Len(tokens) :
          /\ tokens[k].punct \in PUNCTUATION \cup { <<>> }
          /\ tokens[k].paragraph_index \in 0..(Len(paragraphs) - 1)
    /\ \A k \in 1..(Len(tokens) - 1) :
          tokens[k].paragraph_index <= tokens[k + 1].paragraph_index

\* C30 as stated: sentence_end is true exactly for the tokens whose punct is
\* one of . ! ?, and the tokens are well-formed.
C30_TokensAsStated ==
    (pc = "done" /\ out.op = "tokenize_paragraphs") =>
        /\ TokensWellFormed(out.value, out.paragraphs)
        /\ \A k \in 1..Len(out.value) :
              out.value[k].sentence_end <=> out.value[k].punct \in Terminal

\* C30 amended: the tokens are well-formed; a token begins at every word match
\* and at the first match of the call; sentence_end is true exactly for the
\* tokens to which a . ! or ? has been attached, whatever was attached after
\* it: it is true when punct is one of . ! ? and false when punct is empty.
C30_Tokens ==
    (pc = "done" /\ out.op = "tokenize_paragraphs") =>
        LET all == MatchesFrom(out.paragraphs, 0)
            begins == { i \in 1..Len(all) : i = 1 \/ all[i].match \notin PUNCTUATION }
            Nth(k) == CHOOSE i \in begins : Cardinality({ x \in begins : x < i }) = k - 1
            Attached(k) == { j \in (Nth(k) + 1)..Len(all) :
                               \A i \in begins : i <= Nth(k) \/ j < i }
        IN  /\ TokensWellFormed(out.value, out.paragraphs)
            /\ Len(out.value) = Cardinality(begins)
            /\ \A k \in 1..Len(out.value) :
                  /\ out.value[k].sentence_end
                        <=> \E j \in Attached(k) : all[j].match \in Terminal
                  /\ out.value[k].punct \in Terminal => out.value[k].sentence_end
                  /\ out.value[k].punct = <<>> => ~out.value[k].sentence_end

\* "a.," gives one token whose punct is the comma and whose sentence_end is
\* still true
C30_Witness ==
    /\ pc = "done" /\ out.op = "tokenize_paragraphs"
    /\ inp.text = <<"a", ".", ",">>
    /\ Len(out.value) = 1
    /\ out.value[1].punct = <<",">> /\ out.value[1].sentence_end

====
